---- MODULE Spec2Model ----
(***************************************************************************)
(* A model of the valuation engine of HouseEvaluator:                      *)
(*   backend/src/benchmark_matcher.py  (tiered lookup, hedonic adjustment) *)
(*   backend/src/scoring.py            (feature/component scores, grades)  *)
(*   backend/src/rules/jsonlogic.py    (rule expressions)                  *)
(*   backend/src/evaluate.py           (the orchestrator)                  *)
(*                                                                         *)
(* Python floats are modelled in fixed point: a real r is the integer      *)
(* r * FP.  Python strings that the code normalises (strip, lower, upper)  *)
(* or concatenates into index keys are sequences of one-character strings. *)
(* Python values of dynamic type are tagged records [t |-> tag, v |-> x].  *)
(***************************************************************************)
EXTENDS Integers, Sequences, FiniteSets, TLC

VARIABLES
    pc,     \* position of the call under study: "call" before, "done" after
    args,   \* the arguments of the call (a record; its shape depends on the specification)
    ret     \* the value returned, NoRet before the call returns

vars == <<pc, args, ret>>

NoRet == [t |-> "noret"]

-----------------------------------------------------------------------------
(* Dynamic values *)

None == [t |-> "none"]
IntV(n) == [t |-> "int", v |-> n]
\* a Python float, in units of 1/FP
FloatV(x) == [t |-> "float", v |-> x]
\* a Python str, as a sequence of characters
StrV(s) == [t |-> "str", v |-> s]
BoolV(b) == [t |-> "bool", v |-> b]
\* a Python dict, as a function from keys to values
DictV(f) == [t |-> "dict", v |-> f]

EmptyDict == DictV(<<>>)

\* isinstance(x, (int, float))
IsNum(x) == x.t \in {"int", "float"}

\* float(x) of a number, in fixed-point units
FP == 10 ^ 4

AsFP(x) == IF x.t = "int" THEN x.v * FP ELSE x.v

\* d.get(k) of a dict value d
Get(d, k) == IF d.t = "dict" /\ k \in DOMAIN d.v THEN d.v[k] ELSE None

-----------------------------------------------------------------------------
(* Fixed-point arithmetic *)

Abs(x) == IF x < 0 THEN -x ELSE x

Sgn(x) == IF x < 0 THEN -1 ELSE 1

Min2(a, b) == IF a <= b THEN a ELSE b

Max2(a, b) == IF a >= b THEN a ELSE b

\* a / b rounded to the nearest integer (b > 0), halves away from zero
DivRound(a, b) == Sgn(a) * ((2 * Abs(a) + b) \div (2 * b))

\* the fixed-point product of two fixed-point numbers
MulFP(a, b) == DivRound(a * b, FP)

\* the fixed-point quotient of two fixed-point numbers (b > 0)
DivFP(a, b) == DivRound(a * FP, b)

\* Python 3 round(): to the nearest integer, halves to the even neighbour.
\* num / den is the exact value being rounded, den > 0.
RoundHalfEven(num, den) ==
    LET q == num \div den
        r == num % den
    IN  IF 2 * r < den THEN q
        ELSE IF 2 * r > den THEN q + 1
        ELSE IF q % 2 = 0 THEN q ELSE q + 1

\* math.log(f) for f > 0: 2 * atanh((f - 1) / (f + 1)), by its series
LogFP(f) ==
    LET z  == DivFP(f - FP, f + FP)
        z2 == MulFP(z, z)
        z3 == MulFP(z2, z)
        z5 == MulFP(z3, z2)
        z7 == MulFP(z5, z2)
        z9 == MulFP(z7, z2)
    IN  2 * (z + DivRound(z3, 3) + DivRound(z5, 5) + DivRound(z7, 7) + DivRound(z9, 9))

\* math.exp(x), by its Taylor series (|x| stays below 1 in this model)
ExpFP(x) ==
    LET x2 == MulFP(x, x)
        x3 == MulFP(x2, x)
        x4 == MulFP(x3, x)
        x5 == MulFP(x4, x)
        x6 == MulFP(x5, x)
        x7 == MulFP(x6, x)
    IN  FP + x + DivRound(x2, 2) + DivRound(x3, 6) + DivRound(x4, 24)
           + DivRound(x5, 120) + DivRound(x6, 720) + DivRound(x7, 5040)

-----------------------------------------------------------------------------
(* Strings as sequences of characters *)

IsSpace(c) == c = " "

RECURSIVE LStrip(_)
LStrip(s) == IF s # <<>> /\ IsSpace(Head(s)) THEN LStrip(Tail(s)) ELSE s

RECURSIVE RStrip(_)
RStrip(s) ==
    IF s # <<>> /\ IsSpace(s[Len(s)]) THEN RStrip(SubSeq(s, 1, Len(s) - 1)) ELSE s

\* str.strip()
Strip(s) == RStrip(LStrip(s))

LowerChars == <<"a", "c", "d", "e", "g", "h", "i", "k", "l", "n", "o", "r", "s", "t", "u", "w", "x">>

UpperChars == <<"A", "C", "D", "E", "G", "H", "I", "K", "L", "N", "O", "R", "S", "T", "U", "W", "X">>

UpperChar(c) ==
    IF \E i \in 1..Len(LowerChars) : LowerChars[i] = c
    THEN UpperChars[CHOOSE i \in 1..Len(LowerChars) : LowerChars[i] = c]
    ELSE c

LowerChar(c) ==
    IF \E i \in 1..Len(UpperChars) : UpperChars[i] = c
    THEN LowerChars[CHOOSE i \in 1..Len(UpperChars) : UpperChars[i] = c]
    ELSE c

\* str.upper(), over the alphabet of this model
Upper(s) == [i \in 1..Len(s) |-> UpperChar(s[i])]

\* str.lower(), over the alphabet of this model
Lower(s) == [i \in 1..Len(s) |-> LowerChar(s[i])]

\* x or "" for an optional string argument x
OrEmpty(x) == IF x.t = "str" THEN x.v ELSE <<>>

DigitOf ==
    [c \in {"0", "1", "2", "3", "4", "5", "6", "7", "8", "9"} |->
        CASE c = "0" -> 0 [] c = "1" -> 1 [] c = "2" -> 2 [] c = "3" -> 3 [] c = "4" -> 4
          [] c = "5" -> 5 [] c = "6" -> 6 [] c = "7" -> 7 [] c = "8" -> 8 [] c = "9" -> 9]

IsDigits(s) == s # <<>> /\ \A i \in 1..Len(s) : s[i] \in DOMAIN DigitOf

RECURSIVE DigitsValue(_)
DigitsValue(s) ==
    IF s = <<>> THEN 0 ELSE 10 * DigitsValue(SubSeq(s, 1, Len(s) - 1)) + DigitOf[s[Len(s)]]

\* the position of the first "." of s, 0 when there is none
DotAt(s) == IF \E i \in 1..Len(s) : s[i] = "." THEN CHOOSE i \in 1..Len(s) : s[i] = "." /\ \A j \in 1..(i - 1) : s[j] # "." ELSE 0

\* int(float(s.strip())) for the decimal literals digits and digits.digits
\* (optionally signed); None for every other text of this model.
ParseIntOfFloat(s) ==
    LET u    == Strip(s)
        neg  == u # <<>> /\ Head(u) = "-"
        body == IF u # <<>> /\ Head(u) \in {"-", "+"} THEN Tail(u) ELSE u
        d    == DotAt(body)
        ip   == IF d = 0 THEN body ELSE SubSeq(body, 1, d - 1)
        fr   == IF d = 0 THEN <<"0">> ELSE SubSeq(body, d + 1, Len(body))
    IN  IF IsDigits(ip) /\ IsDigits(fr)
        THEN IntV(IF neg THEN -DigitsValue(ip) ELSE DigitsValue(ip))
        ELSE None

-----------------------------------------------------------------------------
(* backend/src/benchmark_matcher.py *)

\* _as_float: None for None, float(x) for a number (fixed point)
_as_float(x) == IF IsNum(x) THEN FloatV(AsFP(x)) ELSE None

\* _as_int: an int as it is, a float truncated toward zero, a text parsed as a
\* float and truncated, None for None and for what does not parse
_as_int(x) ==
    CASE x.t = "int" -> x
      [] x.t = "float" -> IntV(Sgn(x.v) * (Abs(x.v) \div FP))
      [] x.t = "str" -> ParseIntOfFloat(x.v)
      [] OTHER -> None

\* _get_hedonic_config: spec.segmentation.bucket_rules.hedonic_adjustments,
\* an empty dict when any level is missing or is not a dict
_get_hedonic_config(spec) ==
    LET seg   == Get(spec, "segmentation")
        rules == Get(seg, "bucket_rules")
        ha    == Get(rules, "hedonic_adjustments")
    IN  IF ha.t = "dict" THEN ha ELSE EmptyDict

\* the characters of the literals the matcher compares strings with
s_other == <<"o", "t", "h", "e", "r">>

s_all == <<"a", "l", "l">>

s_wood == <<"w", "o", "o", "d">>

s_light_steel == <<"l", "i", "g", "h", "t", "_", "s", "t", "e", "e", "l">>

s_steel == <<"s", "t", "e", "e", "l">>

s_rc == <<"r", "c">>

s_src == <<"s", "r", "c">>

s_UNKNOWN == <<"U", "N", "K", "N", "O", "W", "N">>

s_1R == <<"1", "R">>

s_1K == <<"1", "K">>

s_1DK == <<"1", "D", "K">>

s_1LDK == <<"1", "L", "D", "K">>

\* the hard-coded factor tables (fixed point)
age_factors == ("0_5" :> 10500) @@ ("6_10" :> 10000) @@ ("11_20" :> 9200) @@ ("ge21" :> 8200)

walk_factors == ("le5" :> 10300) @@ ("6_10" :> 10000) @@ ("11_15" :> 9300) @@ ("ge16" :> 8700)

\* average area per layout, square metres in fixed point
layout_avg_area ==
    (s_1R :> 20 * FP) @@ (s_1K :> 22 * FP) @@ (s_1DK :> 28 * FP) @@ (s_1LDK :> 38 * FP)

\* a / b in fixed point, for fixed-point a and b > 0 that are multiples of 0.01
\* (FP = 100 * 100; the quotient is taken so that no product leaves 32 bits)
RatioFP(a, b) == DivRound(a * 100, b \div 100)

area_elasticity_default == 6000

struct_defaults ==
    (s_wood :> 9000) @@ (s_light_steel :> 9400) @@ (s_steel :> 9800)
      @@ (s_rc :> 10800) @@ (s_src :> 11200) @@ (s_other :> 10000)

bath_defaults == ("true" :> 10500) @@ ("false" :> 9500)

orient_defaults ==
    (<<"S">> :> 10500) @@ (<<"S", "E">> :> 10300) @@ (<<"S", "W">> :> 10200)
      @@ (<<"E">> :> 10000) @@ (<<"W">> :> 9900) @@ (<<"N", "E">> :> 9700)
      @@ (<<"N", "W">> :> 9700) @@ (<<"N">> :> 9400) @@ (s_UNKNOWN :> 10000)

strength_base_default == 3500

total_min_default == 8500

total_max_default == 11500

\* conf_scale, in tenths
conf_scale10(confidence) ==
    CASE confidence = "high" -> 10
      [] confidence = "mid" -> 7
      [] confidence = "low" -> 5
      [] OTHER -> 0

\* sample_scale = max(0, min(1, (n - 1) / 4)), in quarters
sample_scale4(n) == Max2(0, Min2(4, n - 1))

\* level_scale, in tenths
level_scale10(matched_level) == IF matched_level = "muni_structure_level" THEN 6 ELSE 10

\* strength = max(0, min(1, strength_base * conf_scale * sample_scale * level_scale))
strength_of(strength_base, n_sources, confidence, matched_level) ==
    Max2(0, Min2(FP,
        DivRound(strength_base * conf_scale10(confidence) * sample_scale4(n_sources)
                    * level_scale10(matched_level), 400)))

\* _shrink_factor: pull f towards 1.0 in log space
_shrink_factor(f, strength) ==
    IF f <= 0 THEN FP
    ELSE IF strength >= FP THEN f
    ELSE ExpFP(MulFP(LogFP(f), strength))

\* a hard-coded table with the numeric overrides of the configuration for its own keys
Overridden(defaults, ov) ==
    [k \in DOMAIN defaults |->
        IF ov.t = "dict" /\ k \in DOMAIN ov.v /\ IsNum(ov.v[k]) THEN AsFP(ov.v[k]) ELSE defaults[k]]

\* a configured number, or the default when it is absent or not a number
NumOr(x, default) == IF IsNum(x) THEN AsFP(x) ELSE default

BenchmarkMatch(rent, raw, n, confidence, level, adj) ==
    [benchmark_rent_yen |-> rent, benchmark_rent_yen_raw |-> raw, benchmark_n_sources |-> n,
     benchmark_confidence |-> confidence, matched_level |-> level, adjustments_applied |-> adj]

age_bucket_of(age) ==
    IF age <= 5 THEN "0_5" ELSE IF age <= 10 THEN "6_10" ELSE IF age <= 20 THEN "11_20" ELSE "ge21"

walk_bucket_of(walk) ==
    IF walk <= 5 THEN "le5" ELSE IF walk <= 10 THEN "6_10" ELSE IF walk <= 15 THEN "11_15" ELSE "ge16"

\* a factor of the building structure at every level
structure_factor_applies_always(matched_level) == TRUE

\* the factor of the building structure is applied only when the benchmark is
\* not of the structure tier
structure_factor_applies(matched_level) == matched_level # "muni_structure_level"

\* the factors of one listing: a sequence of records [name, raw, factor], in the
\* order in which _apply_adjustment multiplies them
hedonic_factors(a, hedonic, strength, matched_level) ==
    LET ages    == Overridden(age_factors, Get(hedonic, "building_age_bucket_multipliers"))
        walks   == Overridden(walk_factors, Get(hedonic, "station_walk_bucket_multipliers"))
        avgs    == Overridden(layout_avg_area, Get(hedonic, "layout_avg_area_sqm"))
        elast   == NumOr(Get(hedonic, "area_elasticity"), area_elasticity_default)
        structs == Overridden(struct_defaults, Get(hedonic, "building_structure_multipliers"))
        baths   == Overridden(bath_defaults, Get(hedonic, "bathroom_toilet_separate_multipliers"))
        orients == Overridden(orient_defaults, Get(hedonic, "orientation_multipliers"))
        F(name, raw, key) ==
            <<[name |-> name, raw |-> raw, factor |-> _shrink_factor(raw, strength), key |-> key]>>
        age   == a.building_age_years
        walk  == IF a.station_walk_min.t = "int" THEN a.station_walk_min
                 ELSE _as_int(a.station_walk_min)
        sqm   == _as_float(a.area_sqm)
        avg   == IF a.layout_type \in DOMAIN avgs THEN avgs[a.layout_type] ELSE 0
        skey0 == Lower(Strip(OrEmpty(a.building_structure)))
        skey  == IF skey0 = <<>> THEN s_other ELSE skey0
        okey0 == Upper(Strip(IF OrEmpty(a.orientation) = <<>> THEN s_UNKNOWN
                                                              ELSE a.orientation.v))
        okey  == IF okey0 \in DOMAIN orients THEN okey0 ELSE s_UNKNOWN
    IN  (IF age.t = "int" THEN F("building_age", ages[age_bucket_of(age.v)], age_bucket_of(age.v))
                          ELSE <<>>)
        \o (IF walk.t = "int"
            THEN F("station_walk", walks[walk_bucket_of(walk.v)], walk_bucket_of(walk.v))
            ELSE <<>>)
        \o (IF sqm.t = "float" /\ sqm.v > 0 /\ avg > 0 /\ elast # 0
            THEN F("area", FP + MulFP(elast, RatioFP(sqm.v - avg, avg)), "area")
            ELSE <<>>)
        \o (IF structure_factor_applies(matched_level)
            THEN F("building_structure",
                   IF skey \in DOMAIN structs THEN structs[skey] ELSE structs[s_other], skey)
            ELSE <<>>)
        \o (IF a.bathroom_toilet_separate.t = "bool"
            THEN LET k == IF a.bathroom_toilet_separate.v THEN "true" ELSE "false"
                 IN  F("bathroom_toilet_separate", baths[k], k)
            ELSE <<>>)
        \o F("orientation", orients[okey], okey)

RECURSIVE ProductFP(_)
\* multiplier = 1.0; multiplier *= factor, for each factor in turn
ProductFP(fs) ==
    IF fs = <<>> THEN FP
    ELSE MulFP(ProductFP(SubSeq(fs, 1, Len(fs) - 1)), fs[Len(fs)].factor)

\* a total multiplier that is not clamped
clamp_multiplier_none(m, total_min, total_max) == m

\* multiplier_clamped = min(max(multiplier_unclamped, total_min), total_max)
clamp_multiplier(m, total_min, total_max) == Min2(Max2(m, total_min), total_max)

\* an adjustment that forgets the strength guard
adjustment_skipped_if_disabled_only(enabled, strength) == enabled = BoolV(FALSE)

\* the two early returns of _apply_adjustment: enabled is False, strength <= 0.0
adjustment_skipped(enabled, strength) == enabled = BoolV(FALSE) \/ strength <= 0

\* _apply_adjustment(raw_yen, n_sources, confidence, matched_level), a the arguments
\* of the enclosing match_benchmark_rent call
_apply_adjustment(a, raw_yen, n_sources, confidence, matched_level) ==
    LET hedonic   == _get_hedonic_config(a.benchmark_spec)
        enabled   == Get(hedonic, "enabled")
        base      == NumOr(Get(hedonic, "strength"), strength_base_default)
        total_min == NumOr(Get(hedonic, "total_multiplier_min"), total_min_default)
        total_max == NumOr(Get(hedonic, "total_multiplier_max"), total_max_default)
        strength  == strength_of(base, n_sources, confidence, matched_level)
        fs        == hedonic_factors(a, hedonic, strength, matched_level)
        unclamped == ProductFP(fs)
        clamped   == clamp_multiplier(unclamped, total_min, total_max)
        adjusted  == RoundHalfEven(raw_yen * clamped, FP)
    IN  IF adjustment_skipped(enabled, strength)
        THEN BenchmarkMatch(IntV(raw_yen), IntV(raw_yen), n_sources, confidence, matched_level, None)
        ELSE BenchmarkMatch(IntV(adjusted), IntV(raw_yen), n_sources, confidence, matched_level,
                DictV([factors |-> fs,
                       hedonic_strength |-> strength,
                       multiplier_total_unclamped |-> unclamped,
                       multiplier_total_clamped |-> clamped,
                       total_multiplier_min |-> total_min,
                       total_multiplier_max |-> total_max,
                       multiplier_total |-> clamped,
                       benchmark_rent_yen_raw |-> raw_yen,
                       benchmark_rent_yen_adjusted |-> adjusted]))

\* f"{a}|{b}|..." : the parts joined by "|"
RECURSIVE JoinKey(_)
JoinKey(parts) ==
    IF Len(parts) = 1 THEN parts[1]
    ELSE JoinKey(SubSeq(parts, 1, Len(parts) - 1)) \o <<"|">> \o parts[Len(parts)]

\* index.get(tier, {}).get(key)
IndexGet(index, tier, key) == Get(Get(index, tier), key)

\* a tier entry that is a non-empty dict
IsEntry(e) == e.t = "dict" /\ DOMAIN e.v # {}

\* _as_int(entry.get("n_rows")) or 0
n_rows_of(e) == LET n == _as_int(Get(e, "n_rows")) IN IF n.t = "int" THEN n.v ELSE 0

\* a structure tier that accepts a single sample
struct_tier_usable_single(n_rows) == n_rows >= 1

\* the structure tier is used only with n_rows >= 2
struct_tier_usable(n_rows) == n_rows >= 2

\* a municipality tier that never downgrades
muni_confidence_always_high(n_rows) == "high"

\* confidence of a municipality-tier match
muni_confidence(n_rows) == IF n_rows >= 2 THEN "high" ELSE "mid"

\* confidence of a prefecture-tier match
pref_confidence(n_rows) == "mid"

\* a result without a match that keeps a confidence
NoMatch_mid == BenchmarkMatch(None, None, 0, "mid", "none", None)

\* the result when no tier has the entry
NoMatch == BenchmarkMatch(None, None, 0, "none", "none", None)

match_benchmark_rent(a) ==
    LET muni         == Strip(OrEmpty(a.municipality))
        structure    == Strip(OrEmpty(a.building_structure))
        exact_struct == IndexGet(a.index, "by_pref_muni_layout_structure",
                                 JoinKey(<<a.prefecture, muni, a.layout_type, structure>>))
        exact        == IndexGet(a.index, "by_pref_muni_layout",
                                 JoinKey(<<a.prefecture, muni, a.layout_type>>))
        pref         == IndexGet(a.index, "by_pref_layout", JoinKey(<<a.prefecture, a.layout_type>>))
        yen(e)       == Get(e, "benchmark_rent_yen_median")
    IN  IF /\ muni # <<>> /\ structure # <<>> /\ structure \notin {s_other, s_all}
           /\ IsEntry(exact_struct) /\ yen(exact_struct).t = "int"
           /\ struct_tier_usable(n_rows_of(exact_struct))
        THEN _apply_adjustment(a, yen(exact_struct).v, n_rows_of(exact_struct), "high",
                               "muni_structure_level")
        ELSE IF muni # <<>> /\ IsEntry(exact) /\ yen(exact).t = "int"
        THEN _apply_adjustment(a, yen(exact).v, n_rows_of(exact),
                               muni_confidence(n_rows_of(exact)), "muni_level")
        ELSE IF IsEntry(pref) /\ yen(pref).t = "int"
        THEN _apply_adjustment(a, yen(pref).v, n_rows_of(pref),
                               pref_confidence(n_rows_of(pref)), "pref_level")
        ELSE NoMatch

-----------------------------------------------------------------------------
(* backend/src/scoring.py *)

\* a Python str that the code only compares and looks up, as a TLA+ string
EnumV(s) == [t |-> "enum", v |-> s]

\* a Python list, as a sequence
ListV(q) == [t |-> "list", v |-> q]

\* an exception leaving the call
Raise(e) == [t |-> "raise", v |-> e]

\* bool(x)
Truthy(x) ==
    CASE x.t = "bool" -> x.v
      [] x.t \in {"int", "float"} -> x.v # 0
      [] x.t = "str" -> x.v # <<>>
      [] x.t = "enum" -> x.v # ""
      [] x.t = "list" -> x.v # <<>>
      [] x.t = "dict" -> DOMAIN x.v # {}
      [] OTHER -> FALSE

\* x in xs, for a list value xs
InList(x, xs) == \E i \in 1..Len(xs.v) : xs.v[i] = x

\* a * b in fixed point, for fixed-point a and b where b is a multiple of 0.01
\* (the product is taken so that it stays within 32 bits)
MulFP2(a, b) == DivRound(a * (b \div 100), 100)

\* a / b in fixed point, b # 0 of either sign and a multiple of 0.01
SignedRatioFP(a, b) == IF b < 0 THEN RatioFP(0 - a, 0 - b) ELSE RatioFP(a, b)

\* _round(x, 6): the model's grid has four decimal digits, so a fixed-point
\* number is its own rounding; num / den is rounded to the grid, halves to even
_round(num, den) == RoundHalfEven(num, den)

\* a default score of 50
default_score_fifty == 50 * FP

default_score == 70 * FP

\* float(params.get("default_score", 70))
default_score_of(params) == NumOr(Get(params, "default_score"), default_score)

RECURSIVE _score_bucket_from(_, _, _)
\* the loop of _score_bucket over the buckets from position i on
_score_bucket_from(value, params, i) ==
    LET buckets == Get(params, "buckets")
        b       == buckets.v[i]
    IN  IF buckets.t # "list" \/ i > Len(buckets.v) THEN default_score_of(params)
        ELSE IF b.t # "dict" THEN _score_bucket_from(value, params, i + 1)
        ELSE IF IsNum(Get(b, "max")) /\ value <= AsFP(Get(b, "max")) THEN AsFP(Get(b, "score"))
        ELSE IF IsNum(Get(b, "min")) /\ value >= AsFP(Get(b, "min")) THEN AsFP(Get(b, "score"))
        ELSE _score_bucket_from(value, params, i + 1)

_score_bucket(value, params) == _score_bucket_from(value, params, 1)

_score_linear(value, params) ==
    LET min_x     == AsFP(Get(params, "min_x"))
        max_x     == AsFP(Get(params, "max_x"))
        min_score == AsFP(Get(params, "min_score"))
        max_score == AsFP(Get(params, "max_score"))
        clamp     == Truthy(Get(params, "clamp"))
        direction == IF Get(params, "direction") = None THEN EnumV("higher_is_better")
                     ELSE Get(params, "direction")
        t         == IF direction = EnumV("higher_is_better")
                     THEN SignedRatioFP(value - min_x, max_x - min_x)
                     ELSE SignedRatioFP(max_x - value, max_x - min_x)
        score     == min_score + MulFP2(t, max_score - min_score)
    IN  IF max_x = min_x THEN default_score_of(params)
        ELSE IF clamp THEN Max2(min_score, Min2(max_score, score))
        ELSE score

\* _feature_score: FloatV(score), None when the input is absent, or SpecError
_feature_score(feature, ctx, s2) ==
    LET params         == IF Get(feature, "params").t = "dict" THEN Get(feature, "params")
                          ELSE EmptyDict
        method         == Get(feature, "method")
        confidence_key == Get(params, "confidence_key")
        neutral_list   == Get(params, "neutral_score_if_confidence_in")
        raw_value      == Get(ctx, Get(feature, "input_key").v)
        shift          == NumOr(Get(Get(s2, "foreigner_adjustment"), "foreign_im_shift_months"), 0)
        table          == Get(params, "table")
    IN  IF /\ confidence_key.t = "enum"
           /\ neutral_list.t = "list"
           /\ InList(Get(ctx, confidence_key.v), neutral_list)
        THEN FloatV(NumOr(Get(params, "neutral_score"), default_score))
        ELSE IF raw_value = None THEN None
        ELSE IF method = EnumV("boolean")
        THEN FloatV(AsFP(IF Truthy(raw_value) THEN Get(params, "true_score")
                                              ELSE Get(params, "false_score")))
        ELSE IF method = EnumV("lookup")
        THEN IF /\ table.t = "dict" /\ raw_value.t \in {"enum", "str"}
                /\ raw_value.v \in DOMAIN table.v
                /\ IsNum(table.v[raw_value.v])
             THEN FloatV(AsFP(table.v[raw_value.v]))
             ELSE FloatV(default_score_of(params))
        ELSE IF method = EnumV("bucket")
        THEN FloatV(_score_bucket(
                 IF Get(params, "apply_foreigner_adjustment") = EnumV("im_shift_months")
                 THEN Max2(0, AsFP(raw_value) - shift) ELSE AsFP(raw_value), params))
        ELSE IF method = EnumV("linear")
        THEN FloatV(_score_linear(AsFP(raw_value), params))
        ELSE Raise("SpecError")

\* float(f.get("weight", 0.0)), in hundredths
weight100(f) == IF IsNum(Get(f, "weight")) THEN AsFP(Get(f, "weight")) \div 100 ELSE 0

RECURSIVE SumSeq(_)
\* the sum of a list of numbers, left to right
SumSeq(terms) == IF terms = <<>> THEN 0 ELSE Head(terms) + SumSeq(Tail(terms))

all_weight_term(f, fs) == weight100(f)

avail_weight_term(f, fs) == IF fs = None THEN 0 ELSE weight100(f)

\* w * fs, in fixed point
total_term(f, fs) == IF fs = None THEN 0 ELSE DivRound(weight100(f) * fs.v, 100)

\* a component without signal scored 0
no_signal_score_zero == 0 * FP

\* the score of a component without signal
no_signal_score == 70 * FP

\* total * scale without the renormalization
scaled_total_unscaled(total, all_weight, avail_weight) == total

\* total * scale, rounded: scale = all_weight / avail_weight if all_weight > 0.0 else 1.0
\* (total in fixed point, the weights in hundredths)
scaled_total(total, all_weight, avail_weight) ==
    IF all_weight > 0 THEN _round(total * all_weight, avail_weight)
    ELSE total

\* scores[i] is what _feature_score answers for the i-th feature; the exception
\* of the first feature that raises one leaves the call
_compute_component_score(component_feats, ctx, s2) ==
    LET returned(scores) ==
            LET all_weight ==
                    SumSeq([i \in DOMAIN scores |-> all_weight_term(component_feats[i], scores[i])])
                avail_weight ==
                    SumSeq([i \in DOMAIN scores |-> avail_weight_term(component_feats[i], scores[i])])
                total ==
                    SumSeq([i \in DOMAIN scores |-> total_term(component_feats[i], scores[i])])
            IN  IF \E i \in 1..Len(scores) : scores[i].t = "raise"
                THEN scores[CHOOSE i \in 1..Len(scores) :
                                scores[i].t = "raise" /\ \A j \in 1..(i - 1) : scores[j].t # "raise"]
                ELSE IF avail_weight <= 0 THEN FloatV(no_signal_score)
                ELSE FloatV(scaled_total(total, all_weight, avail_weight))
    IN  returned([i \in 1..Len(component_feats) |-> _feature_score(component_feats[i], ctx, s2)])

\* the test of the loop with the comparison of the score reversed
band_taken_reversed(score, m, best_min) == score <= m /\ m >= best_min

\* the test of the loop of _grade_for_score: the band is taken
band_taken(score, m, best_min) == score >= m /\ m >= best_min

RECURSIVE grade_loop(_, _, _)
\* the loop of _grade_for_score: the locals best_grade and best_min after the bands
grade_loop(score, bands, best) ==
    IF bands = <<>> THEN best
    ELSE LET g == Get(Head(bands), "grade")
             m == Get(Head(bands), "min_score")
         IN  grade_loop(score, Tail(bands),
                 IF g.t = "enum" /\ IsNum(m) /\ band_taken(score, AsFP(m), best.best_min)
                 THEN [best_grade |-> g.v, best_min |-> AsFP(m)]
                 ELSE best)

\* the locals of _grade_for_score at its return
grade_locals(score, bands) == grade_loop(score, bands, [best_grade |-> "D", best_min |-> 0 - FP])

_grade_for_score(score, bands) == grade_locals(score, bands).best_grade

-----------------------------------------------------------------------------
(* backend/src/rules/jsonlogic.py *)

\* the characters of the strings written EnumV that rules compare by order
EnumChars ==
    [A |-> <<"A">>, B |-> <<"B">>, C |-> <<"C">>, D |-> <<"D">>, S |-> <<"S">>, N |-> <<"N">>,
     high |-> <<"h", "i", "g", "h">>, mid |-> <<"m", "i", "d">>, none |-> <<"n", "o", "n", "e">>]

IsStr(x) == x.t \in {"str", "enum"}

\* the characters of a string value
Chars(x) == IF x.t = "str" THEN x.v ELSE EnumChars[x.v]

\* the order of the characters that the strings of the model are written with
CharRank(c) ==
    LET order == <<" ", "0", "1", "2", "3", "4", "5", "6", "7", "8", "9",
                   "A", "B", "C", "D", "E", "F", "G", "H", "I", "J", "K", "L", "M", "N", "O",
                   "P", "Q", "R", "S", "T", "U", "V", "W", "X", "Y", "Z", "_",
                   "a", "b", "c", "d", "e", "f", "g", "h", "i", "j", "k", "l", "m", "n", "o",
                   "p", "q", "r", "s", "t", "u", "v", "w", "x", "y", "z">>
    IN  CHOOSE i \in 1..Len(order) : order[i] = c

RECURSIVE SeqLess(_, _)
\* a < b for two strings, character by character
SeqLess(a, b) ==
    IF b = <<>> THEN FALSE
    ELSE IF a = <<>> THEN TRUE
    ELSE IF Head(a) = Head(b) THEN SeqLess(Tail(a), Tail(b))
    ELSE CharRank(Head(a)) < CharRank(Head(b))

\* a number of Python: an int, a float or a bool
IsReal(x) == x.t \in {"int", "float", "bool"}

\* the whole part (rounded down) and the fraction, in fixed point, of a number
Whole(x) ==
    CASE x.t = "bool" -> IF x.v THEN 1 ELSE 0
      [] x.t = "int" -> x.v
      [] OTHER -> x.v \div FP

Fraction(x) == IF x.t = "float" THEN x.v % FP ELSE 0

\* x < y and x = y for two numbers, an int of any size among them
RealLess(x, y) ==
    Whole(x) < Whole(y) \/ (Whole(x) = Whole(y) /\ Fraction(x) < Fraction(y))

RealEq(x, y) == Whole(x) = Whole(y) /\ Fraction(x) = Fraction(y)

\* left == right
PyEq(left, right) ==
    IF IsReal(left) /\ IsReal(right) THEN RealEq(left, right)
    ELSE left.t = right.t /\ left = right

\* left < right: BoolV, or TypeError for operands that Python does not order
PyLess(left, right) ==
    IF IsReal(left) /\ IsReal(right) THEN BoolV(RealLess(left, right))
    ELSE IF IsStr(left) /\ IsStr(right) THEN BoolV(SeqLess(Chars(left), Chars(right)))
    ELSE Raise("TypeError")

\* left <= right
PyLessEq(left, right) ==
    IF IsReal(left) /\ IsReal(right) THEN BoolV(~RealLess(right, left))
    ELSE IF IsStr(left) /\ IsStr(right) THEN BoolV(~SeqLess(Chars(right), Chars(left)))
    ELSE Raise("TypeError")

IsRaise(x) == x.t = "raise"

DigitChars == <<"0", "1", "2", "3", "4", "5", "6", "7", "8", "9">>

RECURSIVE Digits(_)
\* the decimal digits of n >= 0
Digits(n) == IF n < 10 THEN <<DigitChars[n + 1]>> ELSE Digits(n \div 10) \o <<DigitChars[(n % 10) + 1]>>

RECURSIVE PadDigits(_, _)
\* the decimal digits of n >= 0, with zeros in front up to width k
PadDigits(n, k) == IF k = 0 THEN <<>> ELSE PadDigits(n \div 10, k - 1) \o <<DigitChars[(n % 10) + 1]>>

RECURSIVE RStripChar(_, _)
\* s.rstrip(c)
RStripChar(s, c) ==
    IF s # <<>> /\ s[Len(s)] = c THEN RStripChar(SubSeq(s, 1, Len(s) - 1), c) ELSE s

\* f"{x:.kf}" of a fixed-point x, k = 4 or k = 2
FixedFormat(x, k) ==
    LET scaled == IF k = 4 THEN Abs(x) ELSE RoundHalfEven(Abs(x), 100)
        unit   == IF k = 4 THEN FP ELSE 100
    IN  (IF x < 0 THEN <<"-">> ELSE <<>>) \o Digits(scaled \div unit) \o <<".">>
            \o PadDigits(scaled % unit, k)

\* str(x) of an int
IntStr(n) == (IF n < 0 THEN <<"-">> ELSE <<>>) \o Digits(Abs(n))

\* str(x): the text of a value; of a float the shortest decimal writing, with
\* one decimal at least
PyStr(x) ==
    CASE IsStr(x) -> Chars(x)
      [] x.t = "int" -> IntStr(x.v)
      [] x.t = "bool" -> IF x.v THEN <<"T", "r", "u", "e">> ELSE <<"F", "a", "l", "s", "e">>
      [] x.t = "float" ->
           LET z == RStripChar(FixedFormat(x.v, 4), "0")
           IN  IF z[Len(z)] = "." THEN z \o <<"0">> ELSE z
      [] OTHER -> <<"N", "o", "n", "e">>

\* needle in haystack, for two strings
IsSubSeq(needle, haystack) ==
    \E i \in 1..(Len(haystack) + 1) :
        /\ i + Len(needle) - 1 <= Len(haystack)
        /\ SubSeq(haystack, i, i + Len(needle) - 1) = needle

\* _get_var written with data[key]: KeyError for a key that data does not hold
_get_var_subscript(data, var_expr) ==
    IF var_expr.t = "enum" /\ var_expr.v \notin DOMAIN data.v THEN Raise("KeyError")
    ELSE IF var_expr.t = "enum" THEN data.v[var_expr.v]
    ELSE Raise("JsonLogicError")

\* the name of a variable is written EnumV; a context holds no key written StrV
_get_var(data, var_expr) ==
    IF var_expr.t = "enum" THEN Get(data, var_expr.v)
    ELSE IF var_expr.t = "str" THEN None
    ELSE IF var_expr.t = "list" /\ var_expr.v # <<>> /\ var_expr.v[1].t = "enum"
    THEN IF var_expr.v[1].v \in DOMAIN data.v THEN data.v[var_expr.v[1].v]
         ELSE IF Len(var_expr.v) > 1 THEN var_expr.v[2] ELSE None
    ELSE Raise("JsonLogicError")

\* the first exception of a list of results, or the list
FirstRaise(results) ==
    IF \E i \in DOMAIN results : IsRaise(results[i])
    THEN results[CHOOSE i \in DOMAIN results :
                     IsRaise(results[i]) /\ \A j \in 1..(i - 1) : ~IsRaise(results[j])]
    ELSE ListV(results)

RECURSIVE apply(_, _)
RECURSIVE apply_and(_, _, _)

\* the loop of "and", written to return bool(last) for an operand not truthy
apply_and_cast(operands, i, data) ==
    LET last == apply(operands[i], data)
    IN  IF IsRaise(last) THEN last
        ELSE IF ~Truthy(last) THEN BoolV(FALSE)
        ELSE IF i = Len(operands) THEN last
        ELSE apply_and(operands, i + 1, data)

\* the loop of "and" over the operands from position i on
apply_and(operands, i, data) ==
    LET last == apply(operands[i], data)
    IN  IF IsRaise(last) \/ ~Truthy(last) \/ i = Len(operands) THEN last
        ELSE apply_and(operands, i + 1, data)

apply(rule, data) ==
    IF rule = None THEN None
    ELSE IF rule.t \in {"bool", "int", "float", "str", "enum"} THEN rule
    ELSE IF rule.t = "list" THEN FirstRaise([i \in DOMAIN rule.v |-> apply(rule.v[i], data)])
    ELSE IF rule.t # "dict" THEN Raise("JsonLogicError")
    ELSE IF Cardinality(DOMAIN rule.v) # 1 THEN Raise("JsonLogicError")
    ELSE
      LET op       == CHOOSE k \in DOMAIN rule.v : TRUE
          raw_args == rule.v[op]
          operands == IF raw_args.t = "list" THEN raw_args.v ELSE <<raw_args>>
          left     == apply(operands[1], data)
          right    == apply(operands[2], data)
      IN  IF op = "var" THEN _get_var(data, raw_args)
          ELSE IF op = "and"
          THEN IF operands = <<>> THEN BoolV(TRUE) ELSE apply_and(operands, 1, data)
          ELSE IF op = "in"
          THEN IF Len(operands) # 2 THEN Raise("JsonLogicError")
               ELSE IF IsRaise(left) THEN left
               ELSE IF IsRaise(right) THEN right
               ELSE IF right.t = "list" THEN BoolV(\E i \in DOMAIN right.v : PyEq(left, right.v[i]))
               ELSE IF IsStr(right) THEN BoolV(IsSubSeq(PyStr(left), Chars(right)))
               ELSE BoolV(FALSE)
          ELSE IF op \in {"==", "!=", ">", ">=", "<", "<="}
          THEN IF Len(operands) # 2 THEN Raise("JsonLogicError")
               ELSE IF IsRaise(left) THEN left
               ELSE IF IsRaise(right) THEN right
               ELSE IF op = "==" THEN BoolV(PyEq(left, right))
               ELSE IF op = "!=" THEN BoolV(~PyEq(left, right))
               ELSE IF left = None \/ right = None THEN BoolV(FALSE)
               ELSE IF op = ">" THEN PyLess(right, left)
               ELSE IF op = ">=" THEN PyLessEq(right, left)
               ELSE IF op = "<" THEN PyLess(left, right)
               ELSE PyLessEq(left, right)
          ELSE Raise("JsonLogicError")

\* _select_first_rule_by_priority: the first rule whose "when" is truthy, a rule
\* whose "when" raises passed over; None when there is none
RECURSIVE _select_first_rule_by_priority(_, _)
_select_first_rule_by_priority(rules, ctx) ==
    IF rules = <<>> THEN None
    ELSE LET cond == Get(Head(rules), "when")
             hit  == apply(cond, ctx)
         IN  IF cond # None /\ ~IsRaise(hit) /\ Truthy(hit) THEN Head(rules)
             ELSE _select_first_rule_by_priority(Tail(rules), ctx)

-----------------------------------------------------------------------------
(* backend/src/evaluate.py *)

\* a text with placeholders: the pieces it is written of, in order, each a
\* string or the token {key} of a context key
TextV(pieces) == [t |-> "text", v |-> pieces]

Token(key) == [t |-> "token", v |-> key]

\* the Python writing of a list or a dict, which is never empty
Repr(x) == [t |-> "repr", v |-> x]

_format_value_for_template(value) ==
    CASE value = None -> StrV(<<"n", "u", "l", "l">>)
      [] value.t = "bool" ->
           StrV(IF value.v THEN <<"t", "r", "u", "e">> ELSE <<"f", "a", "l", "s", "e">>)
      [] value.t = "int" -> StrV(IntStr(value.v))
      [] value.t = "float" ->
           StrV(RStripChar(RStripChar(FixedFormat(value.v, IF Abs(value.v) < 2 * FP THEN 4 ELSE 2),
                                      "0"), "."))
      [] IsStr(value) -> value
      [] OTHER -> Repr(value)

\* _render_placeholders: every token of a key of the context replaced by the
\* formatted value of the key (the values hold no token themselves)
_render_placeholders(text, ctx) ==
    TextV([i \in DOMAIN text.v |->
              IF text.v[i].t = "token" /\ text.v[i].v \in DOMAIN ctx.v
              THEN _format_value_for_template(ctx.v[text.v[i].v])
              ELSE text.v[i]])

\* str(tpl.get(key, "")) of a template
TextOf(tpl, key) == IF Get(tpl, key).t = "text" THEN Get(tpl, key) ELSE TextV(<<>>)

\* the text is the empty string
IsEmptyText(text) ==
    \A i \in DOMAIN text.v :
        \/ text.v[i].t = "str" /\ text.v[i].v = <<>>
        \/ text.v[i].t = "enum" /\ text.v[i].v = ""

\* _validate_input: TRUE when the payload is accepted, InputValidationError
\* raised otherwise
FieldOf(s1, k) ==
    LET fields == Get(s1, "fields").v
    IN  IF \E i \in DOMAIN fields : Get(fields[i], "key") = EnumV(k)
        THEN fields[CHOOSE i \in DOMAIN fields :
                        /\ Get(fields[i], "key") = EnumV(k)
                        /\ \A j \in DOMAIN fields : j > i => Get(fields[j], "key") # EnumV(k)]
        ELSE None

\* the type of the field is a known one and the value is of it
TypeAccepted(spec, v) ==
    LET ftype == Get(spec, "type")
        ev    == Get(Get(spec, "constraints"), "enum_values")
    IN  CASE ftype = EnumV("integer") -> v.t \in {"int", "bool"}
          [] ftype = EnumV("number") -> v.t \in {"int", "bool", "float"}
          [] ftype = EnumV("boolean") -> v.t = "bool"
          [] ftype = EnumV("string") -> IsStr(v)
          [] ftype = EnumV("enum") -> IsStr(v) /\ (ev.t = "list" => InList(v, ev))
          [] OTHER -> FALSE

\* a max that is enforced whatever the unit
enforce_max_always(unit) == TRUE

\* str(unit or "none") != "yen"
enforce_max(unit) == unit # EnumV("yen")

RangeAccepted(spec, v) ==
    LET min_v == Get(Get(spec, "constraints"), "min")
        max_v == Get(Get(spec, "constraints"), "max")
    IN  /\ ~(IsReal(min_v) /\ IsReal(v) /\ RealLess(v, min_v))
        /\ ~(enforce_max(Get(spec, "unit")) /\ IsReal(max_v) /\ IsReal(v) /\ RealLess(max_v, v))

_validate_input(payload, s1) ==
    LET required == Get(s1, "mvp_required_fields").v
    IN  /\ \A k \in DOMAIN payload.v : FieldOf(s1, k) # None
        /\ \A i \in DOMAIN required : required[i].v \in DOMAIN payload.v
        /\ ~(/\ Get(payload, "hub_station") = StrV(s_other)
             /\ "hub_station_other_name" \notin DOMAIN payload.v)
        /\ \A k \in DOMAIN payload.v :
              TypeAccepted(FieldOf(s1, k), payload.v[k]) /\ RangeAccepted(FieldOf(s1, k), payload.v[k])

_IM_MARKET_AVG_DEFAULT == 45 * (FP \div 10)

\* _IM_MARKET_AVG_BY_PREF.get(pref_str, _IM_MARKET_AVG_DEFAULT)
im_market_avg_of(pref_str) ==
    IF pref_str \in {<<"t", "o", "k", "y", "o">>, <<"o", "s", "a", "k", "a">>} THEN 5 * FP
    ELSE _IM_MARKET_AVG_DEFAULT

\* the labels stand for the Korean texts of the source, in their order
_im_assessment_label_ko(im, market_avg) ==
    LET delta == im - market_avg
    IN  IF delta <= 0 - 15 * (FP \div 10) THEN EnumV("very_low")
        ELSE IF delta <= 0 - FP THEN EnumV("low")
        ELSE IF delta < FP THEN EnumV("average")
        ELSE IF delta < 15 * (FP \div 10) THEN EnumV("somewhat_high")
        ELSE EnumV("high")

\* int(x) of a number
IntOf(x) ==
    CASE x.t = "int" -> x.v
      [] x.t = "bool" -> IF x.v THEN 1 ELSE 0
      [] OTHER -> Sgn(x.v) * (Abs(x.v) \div FP)

\* a / b in fixed point, for amounts in yen where b > 0 is a multiple of 100
YenRatioFP(a, b) == DivRound(a * 100, b \div 100)

\* str(x) as the matcher reads it: the characters of a string
StrOf(x) == IF IsStr(x) THEN Chars(x) ELSE PyStr(x)

\* x or None as an argument of the matcher
OptStr(x) == IF x = None THEN None ELSE StrV(StrOf(x))

\* x.get(key, default) as a string argument of the matcher
StrOr(payload, key, default) ==
    IF key \in DOMAIN payload.v THEN StrV(StrOf(payload.v[key])) ELSE StrV(default)

\* sorted(rules, key=lambda x: int(x.get("priority", 0))), which keeps the order
\* of the rules of equal priority; with reverse, reverse=True, which keeps it too
\* a priority that is never read, so that the rules keep the order of the list
priority_of_zero(r) == 0

\* int(x.get("priority", 0))
priority_of(r) == IF IsReal(Get(r, "priority")) THEN IntOf(Get(r, "priority")) ELSE 0

RECURSIVE sorted_by_priority(_, _)
sorted_by_priority(rules, reverse) ==
    IF rules = <<>> THEN <<>>
    ELSE LET first == CHOOSE i \in DOMAIN rules :
                          /\ \A j \in DOMAIN rules :
                                IF reverse THEN priority_of(rules[j]) <= priority_of(rules[i])
                                ELSE priority_of(rules[i]) <= priority_of(rules[j])
                          /\ \A j \in 1..(i - 1) : priority_of(rules[j]) # priority_of(rules[i])
         IN  <<rules[first]>> \o
             sorted_by_priority([k \in 1..(Len(rules) - 1) |->
                                    IF k < first THEN rules[k] ELSE rules[k + 1]], reverse)

\* x.get(key, []) of a dict of the specification: the list, as a sequence
ListOf(d, key) == IF Get(d, key).t = "list" THEN Get(d, key).v ELSE <<>>

RECURSIVE risk_flag_loop(_, _, _, _)
\* the loop over the sorted risk-flag rules: the list of flags, or the exception
\* that the evaluation of a "when" raises
risk_flag_loop(rules, ctx, seen_flags, risk_flags) ==
    IF rules = <<>> THEN ListV(risk_flags)
    ELSE LET r    == Head(rules)
             cond == Get(r, "when")
             hit  == apply(cond, ctx)
             out  == IF Get(r, "outputs").t = "dict" THEN Get(r, "outputs") ELSE EmptyDict
             rid  == Get(out, "risk_flag_id")
             sev  == Get(out, "severity")
         IN  IF cond = None THEN risk_flag_loop(Tail(rules), ctx, seen_flags, risk_flags)
             ELSE IF IsRaise(hit) THEN hit
             ELSE IF Truthy(hit) /\ rid.t = "enum" /\ rid.v \notin seen_flags
             THEN risk_flag_loop(Tail(rules), ctx, seen_flags \cup {rid.v},
                      Append(risk_flags, DictV([risk_flag_id |-> rid, severity |-> sev])))
             ELSE risk_flag_loop(Tail(rules), ctx, seen_flags, risk_flags)

RECURSIVE tradeoff_loop(_, _)
\* the loop over the sorted trade-off rules: the outputs of the first rule whose
\* "when" is truthy, None when there is none, or the exception of a "when"
tradeoff_loop(rules, ctx) ==
    IF rules = <<>> THEN None
    ELSE LET tr   == Head(rules)
             cond == Get(tr, "when")
             hit  == apply(cond, ctx)
         IN  IF cond = None THEN tradeoff_loop(Tail(rules), ctx)
             ELSE IF IsRaise(hit) THEN hit
             ELSE IF Truthy(hit)
             THEN IF Get(tr, "outputs").t = "dict" THEN Get(tr, "outputs") ELSE EmptyDict
             ELSE tradeoff_loop(Tail(rules), ctx)

\* x if isinstance(x, str) else None
StrOrNone(x) == IF IsStr(x) THEN x ELSE None

\* d.update(e): the keys of e over those of d
Updated(d, e) ==
    DictV([k \in DOMAIN d.v \cup DOMAIN e.v |-> IF k \in DOMAIN e.v THEN e.v[k] ELSE d.v[k]])

\* [_render_placeholders(str(s), ctx) for s in (tpl.get(key) or [])]
RenderedList(tpl, key, ctx) ==
    LET texts == ListOf(tpl, key)
    IN  ListV([i \in DOMAIN texts |-> _render_placeholders(texts[i], ctx)])

\* the keys of the input schema whose name ends in _yen
YenKeys == {"rent_yen", "mgmt_fee_yen", "initial_cost_total_yen", "deposit_yen", "key_money_yen"}

\* key.endswith("_yen")
EndsWithYen(key) == key \in YenKeys

\* the _as_int of the what-if loop: 0 for None, int(x) otherwise
WhatIfInt(x) == IF x = None THEN 0 ELSE IntOf(x)

\* float(s2["weights"][component]), in hundredths
component_weight100(s2, component) == AsFP(Get(Get(s2, "weights"), component)) \div 100

\* an overall score that is the cost score alone
overall_of_cost_only(s2, location_score, condition_score, cost_score) == cost_score

\* _round(w_location * location + w_condition * condition + w_cost * cost, 6)
overall_of(s2, location_score, condition_score, cost_score) ==
    _round(component_weight100(s2, "location") * location_score
             + component_weight100(s2, "condition") * condition_score
             + component_weight100(s2, "cost") * cost_score, 100)

\* (monthly - benchmark) / benchmark when there is a benchmark > 0, else 0.0
rent_delta_ratio_of(monthly_fixed_cost_yen, benchmark) ==
    IF benchmark # None /\ benchmark.v > 0
    THEN DivRound((monthly_fixed_cost_yen - benchmark.v) * FP, benchmark.v)
    ELSE 0

\* initial_cost_total / monthly when monthly > 0, else 0.0
initial_multiple_of(initial_cost_total_yen, monthly_fixed_cost_yen) ==
    IF monthly_fixed_cost_yen > 0 THEN YenRatioFP(initial_cost_total_yen, monthly_fixed_cost_yen)
    ELSE 0

\* a new value that is not cut off at 0
what_if_new_value_unclamped(action_type, action, old_target_int) ==
    CASE action_type = EnumV("delta_yen") ->
           IntV(old_target_int + WhatIfInt(Get(action, "value")))
      [] action_type = EnumV("set_zero") -> IntV(0)
      [] action_type = EnumV("scale") ->
           IntV(RoundHalfEven(old_target_int * (NumOr(Get(action, "value"), FP) \div 100), 100))
      [] OTHER -> None

\* the new value of the target of a what-if action; None for an action of
\* another type, which yields no record
what_if_new_value(action_type, action, old_target_int) ==
    CASE action_type = EnumV("delta_yen") ->
           IntV(Max2(0, old_target_int + WhatIfInt(Get(action, "value"))))
      [] action_type = EnumV("set_zero") -> IntV(0)
      [] action_type = EnumV("scale") ->
           IntV(Max2(0, RoundHalfEven(old_target_int * (NumOr(Get(action, "value"), FP) \div 100), 100)))
      [] OTHER -> None

\* a new_payload whose total takes the new value of the target, not the difference
what_if_payload_added(payload, target_key, new_value) ==
    LET set == Updated(payload, DictV([k \in {target_key} |-> new_value]))
    IN  IF /\ target_key # "initial_cost_total_yen"
           /\ EndsWithYen(target_key)
           /\ "initial_cost_total_yen" \in DOMAIN set.v
        THEN Updated(set, DictV([initial_cost_total_yen |->
                 IntV(Max2(0, WhatIfInt(set.v.initial_cost_total_yen) + new_value.v))]))
        ELSE set

\* a new_payload whose total is left as it was
what_if_payload_unpropagated(payload, target_key, new_value) ==
    Updated(payload, DictV([k \in {target_key} |-> new_value]))

\* new_payload after the action: the target set, and the difference carried
\* into initial_cost_total_yen when the target is another key in yen
what_if_payload(payload, target_key, new_value) ==
    LET old_target_int == WhatIfInt(Get(payload, target_key))
        set            == Updated(payload, DictV([k \in {target_key} |-> new_value]))
        delta_total    == new_value.v - old_target_int
    IN  IF /\ target_key # "initial_cost_total_yen"
           /\ EndsWithYen(target_key)
           /\ "initial_cost_total_yen" \in DOMAIN set.v
        THEN Updated(set, DictV([initial_cost_total_yen |->
                 IntV(Max2(0, WhatIfInt(set.v.initial_cost_total_yen) + delta_total))]))
        ELSE set

\* the record of one well-formed action of an enabled what-if rule, or the
\* exception of the cost score; base holds the locals of evaluate that the loop
\* reads
what_if_record(wi, action, new_payload, base) ==
    LET new_monthly_fixed    == IntOf(new_payload.v.rent_yen) + IntOf(new_payload.v.mgmt_fee_yen)
        new_total            == IntOf(new_payload.v.initial_cost_total_yen)
        new_im               == initial_multiple_of(new_total, new_monthly_fixed)
        new_effective_im     == Max2(0, new_im - base.foreigner_shift)
        new_ctx ==
            Updated(Updated(base.ctx, new_payload),
                    DictV([monthly_fixed_cost_yen |-> IntV(new_monthly_fixed),
                           rent_delta_ratio |->
                               FloatV(rent_delta_ratio_of(new_monthly_fixed,
                                                          base.benchmark_monthly_fixed_cost_yen)),
                           initial_multiple |-> FloatV(new_im),
                           initial_multiple_market_delta |-> FloatV(new_im - base.im_market_avg),
                           initial_multiple_market_delta_foreigner |->
                               FloatV(new_effective_im - base.im_market_avg)]))
        new_overall_score(new_cost_score) ==
            overall_of(base.s2, base.location_score, base.condition_score, new_cost_score.v)
        record(new_cost_score) ==
            IF IsRaise(new_cost_score) THEN new_cost_score
            ELSE DictV([id |-> Get(wi, "id"),
                        label_ko |-> Get(action, "label_ko"),
                        label_ja |-> Get(action, "label_ja"),
                        initial_cost_total_yen |-> IntV(new_total),
                        initial_multiple |-> FloatV(new_im),
                        cost_score |-> new_cost_score,
                        overall_score |-> FloatV(new_overall_score(new_cost_score)),
                        cost_grade |-> EnumV(_grade_for_score(new_cost_score.v,
                                           ListOf(Get(base.s2, "grade_thresholds"), "cost"))),
                        overall_grade |-> EnumV(_grade_for_score(new_overall_score(new_cost_score),
                                              ListOf(Get(base.s2, "grade_thresholds"), "overall")))])
    IN  record(_compute_component_score(base.cost_features, new_ctx, base.s2))

\* results.append(record), unless the record is an exception, which leaves the loop
what_if_appended(results, record) ==
    IF IsRaise(record) THEN record ELSE ListV(Append(results.v, record))

RECURSIVE what_if_actions_cumulative(_, _, _, _, _)
\* a loop over the actions in which each action is applied to the payload that
\* the action before it has left
what_if_actions_cumulative(wi, actions, payload, base, results) ==
    IF actions = <<>> \/ IsRaise(results) THEN results
    ELSE LET action      == Head(actions)
             target_key  == Get(action, "target_key")
             action_type == Get(action, "type")
             new_value   == what_if_new_value(action_type, action,
                                              WhatIfInt(Get(payload, target_key.v)))
         IN  IF action.t # "dict" \/ target_key.t # "enum" \/ action_type.t # "enum"
                  \/ new_value = None
             THEN what_if_actions_cumulative(wi, Tail(actions), payload, base, results)
             ELSE what_if_actions_cumulative(wi, Tail(actions),
                      what_if_payload(payload, target_key.v, new_value), base,
                      what_if_appended(results,
                          what_if_record(wi, action,
                              what_if_payload(payload, target_key.v, new_value), base)))

RECURSIVE what_if_actions(_, _, _, _, _)
\* the loop over the actions of an enabled rule: the records appended to
\* results, or the exception that has left the loop
what_if_actions(wi, actions, payload, base, results) ==
    IF actions = <<>> \/ IsRaise(results) THEN results
    ELSE LET action      == Head(actions)
             target_key  == Get(action, "target_key")
             action_type == Get(action, "type")
             new_value   == what_if_new_value(action_type, action,
                                              WhatIfInt(Get(payload, target_key.v)))
         IN  IF action.t # "dict" \/ target_key.t # "enum" \/ action_type.t # "enum"
                  \/ new_value = None
             THEN what_if_actions(wi, Tail(actions), payload, base, results)
             ELSE what_if_actions(wi, Tail(actions), payload, base,
                      what_if_appended(results,
                          what_if_record(wi, action,
                              what_if_payload(payload, target_key.v, new_value), base)))

\* the rule is enabled: enabled_if is there and truthy; an exception of its
\* evaluation is the answer
what_if_enabled(wi, ctx) ==
    IF Get(wi, "enabled_if") = None THEN BoolV(FALSE) ELSE apply(Get(wi, "enabled_if"), ctx)

\* one turn of the loop over the what-if rules, enabled being what
\* what_if_enabled answers for the rule
what_if_turn(wi, enabled, payload, base, results) ==
    IF IsRaise(enabled) THEN enabled
    ELSE IF ~Truthy(enabled) THEN results
    ELSE what_if_actions(wi, ListOf(wi, "actions"), payload, base, results)

RECURSIVE what_if_loop(_, _, _, _)
\* the loop over the what-if rules: the list of records, or the exception that
\* has left the loop
what_if_loop(rules, payload, base, results) ==
    IF rules = <<>> \/ IsRaise(results) THEN results
    ELSE what_if_loop(Tail(rules), payload, base,
                      what_if_turn(Head(rules), what_if_enabled(Head(rules), base.ctx),
                                   payload, base, results))

\* the estimate without the management fee of the listing as its limit
_estimate_benchmark_mgmt_fee_yen_of_rent(benchmark_rent_yen, input_mgmt_fee_yen) ==
    IF benchmark_rent_yen <= 0 \/ input_mgmt_fee_yen <= 0 THEN 0
    ELSE Max2(0, Min2(RoundHalfEven(benchmark_rent_yen * 5, 100), 20000))

_estimate_benchmark_mgmt_fee_yen(benchmark_rent_yen, input_mgmt_fee_yen) ==
    LET rate_of_rent == 5
        cap_yen      == 20000
        est          == RoundHalfEven(benchmark_rent_yen * rate_of_rent, 100)
    IN  IF benchmark_rent_yen <= 0 THEN 0
        ELSE IF input_mgmt_fee_yen <= 0 THEN 0
        ELSE Min2(input_mgmt_fee_yen, Max2(0, Min2(est, cap_yen)))

\* the levels of a benchmark of a live provider, which holds the total cost
live_levels ==
    {"suumo_live", "suumo_relaxed", "homes_live", "homes_relaxed", "chintai_live", "chintai_relaxed"}

\* the features of a component, in the order of the specification
RECURSIVE features_of(_, _)
features_of(features, component) ==
    IF features = <<>> THEN <<>>
    ELSE IF Head(features).t = "dict" /\ Get(Head(features), "component") = EnumV(component)
    THEN <<Head(features)>> \o features_of(Tail(features), component)
    ELSE features_of(Tail(features), component)

\* the live comparable search of evaluate: the result that is used, or None;
\* env.search is what search_comparable_listings answers: a result, None or an
\* exception
live_result_of(env) ==
    IF env.live_enabled /\ env.live_available /\ ~IsRaise(env.search) THEN env.search ELSE None

\* a live result that is used whatever its confidence
live_used_of_any(env) == live_result_of(env) # None

live_used_of(env) ==
    live_result_of(env) # None /\ live_result_of(env).benchmark_confidence # "none"

live_benchmark_of(env) ==
    LET r == live_result_of(env)
        use_live == env.live_enabled /\ env.live_available
    IN  DictV([enabled |-> BoolV(env.live_enabled),
               available |-> BoolV(env.live_available),
               attempted |-> BoolV(use_live),
               used |-> BoolV(live_used_of(env)),
               confidence |-> EnumV(IF r # None THEN r.benchmark_confidence ELSE "none"),
               n_sources |-> IntV(IF r # None THEN r.benchmark_n_sources ELSE 0),
               matched_level |-> EnumV(IF r # None THEN r.matched_level ELSE "none"),
               error |-> IF ~env.live_enabled THEN EnumV("disabled")
                         ELSE IF ~env.live_available THEN EnumV("unavailable")
                         ELSE IF IsRaise(env.search) THEN EnumV("exception")
                         ELSE IF r # None THEN r.error ELSE None])

\* the benchmark of evaluate: that of the live search when it is used, the
\* match of the index otherwise
benchmark_of(payload, rt, benchmark_index_override, env, building_age_years) ==
    LET r == live_result_of(env)
        opt(key) == IF Get(payload, key) = None THEN None ELSE Get(payload, key)
    IN  IF live_used_of(env)
        THEN BenchmarkMatch(r.benchmark_rent_yen, r.benchmark_rent_yen_raw, r.benchmark_n_sources,
                            r.benchmark_confidence, r.matched_level, None)
        ELSE match_benchmark_rent(
                 [fn |-> "match_benchmark_rent",
                  prefecture |-> StrOf(payload.v.prefecture),
                  municipality |-> OptStr(Get(payload, "municipality")),
                  layout_type |-> StrOf(payload.v.layout_type),
                  building_structure |-> StrOr(payload, "building_structure", s_other),
                  index |-> IF benchmark_index_override # None THEN benchmark_index_override
                            ELSE rt.benchmark_index,
                  area_sqm |-> _as_float(opt("area_sqm")),
                  building_age_years |-> IntV(building_age_years),
                  station_walk_min |-> IF opt("station_walk_min") = None THEN None
                                       ELSE IntV(IntOf(opt("station_walk_min"))),
                  orientation |-> StrOr(payload, "orientation", s_UNKNOWN),
                  bathroom_toilet_separate |->
                      IF "bathroom_toilet_separate" \in DOMAIN payload.v
                      THEN BoolV(Truthy(payload.v.bathroom_toilet_separate)) ELSE None,
                  benchmark_spec |-> Get(rt.spec, "D1")])

\* evaluate is modelled part by part.  The locals of the call are a record l,
\* and each part takes the locals before it to the locals after it; l.raised is
\* the exception that has left the call, None while there is none, and a part
\* that is reached after an exception leaves the locals as they are.

\* the entry of evaluate: the specifications of the runtime, and the validation
\* of the payload
evaluate_validate(payload, rt, benchmark_index_override, env) ==
    [payload |-> payload, rt |-> rt, benchmark_index_override |-> benchmark_index_override,
     env |-> env, s2 |-> Get(rt.spec, "S2"), c1 |-> Get(rt.spec, "C1"),
     raised |-> IF _validate_input(payload, Get(rt.spec, "S1")) THEN None
                ELSE Raise("InputValidationError")]

\* the monthly cost, the age, the initial multiple and the benchmark
evaluate_benchmark(l) ==
    IF l.raised # None THEN l
    ELSE LET monthly_fixed_cost_yen ==
                 IntOf(l.payload.v.rent_yen) + IntOf(l.payload.v.mgmt_fee_yen)
             building_age_years ==
                 Max2(0, l.env.current_year - IntOf(l.payload.v.building_built_year))
         IN  [monthly_fixed_cost_yen |-> monthly_fixed_cost_yen,
              building_age_years |-> building_age_years,
              initial_multiple |->
                  initial_multiple_of(IntOf(l.payload.v.initial_cost_total_yen),
                                      monthly_fixed_cost_yen),
              bm |-> benchmark_of(l.payload, l.rt, l.benchmark_index_override, l.env,
                                  building_age_years)] @@ l

\* the estimate of the management fee of the benchmark, the ratio of the rent to
\* the benchmark, the assessment of the initial multiple, and the context
evaluate_derived(l) ==
    IF l.raised # None THEN l
    ELSE LET bm == l.bm
             is_live_total_benchmark == bm.matched_level \in live_levels
             estimated == ~is_live_total_benchmark /\ bm.benchmark_rent_yen # None
             benchmark_mgmt_fee_estimate_yen ==
                 IF estimated
                 THEN _estimate_benchmark_mgmt_fee_yen(IntOf(bm.benchmark_rent_yen),
                                                       WhatIfInt(Get(l.payload, "mgmt_fee_yen")))
                 ELSE 0
             added == benchmark_mgmt_fee_estimate_yen > 0
             benchmark_monthly_fixed_cost_yen ==
                 IF added THEN IntV(IntOf(bm.benchmark_rent_yen) + benchmark_mgmt_fee_estimate_yen)
                 ELSE bm.benchmark_rent_yen
             benchmark_monthly_fixed_cost_yen_raw ==
                 IF added /\ bm.benchmark_rent_yen_raw # None
                 THEN IntV(IntOf(bm.benchmark_rent_yen_raw) + benchmark_mgmt_fee_estimate_yen)
                 ELSE bm.benchmark_rent_yen_raw
             benchmark_adjustments ==
                 IF added
                 THEN Updated(IF bm.adjustments_applied.t = "dict" THEN bm.adjustments_applied
                              ELSE EmptyDict,
                              DictV([management_fee_estimate_yen |->
                                         IntV(benchmark_mgmt_fee_estimate_yen),
                                     management_fee_estimate_rate_of_rent |->
                                         FloatV(5 * (FP \div 100)),
                                     management_fee_estimate_cap_yen |-> IntV(20000)]))
                 ELSE bm.adjustments_applied
             im_market_avg == im_market_avg_of(IF "prefecture" \in DOMAIN l.payload.v
                                               THEN StrOf(l.payload.v.prefecture) ELSE <<>>)
             foreigner_shift ==
                 NumOr(Get(Get(l.s2, "foreigner_adjustment"), "foreign_im_shift_months"), FP)
             effective_im_foreigner == Max2(0, l.initial_multiple - foreigner_shift)
             derived ==
                 DictV([monthly_fixed_cost_yen |-> IntV(l.monthly_fixed_cost_yen),
                        building_age_years |-> IntV(l.building_age_years),
                        initial_multiple |-> FloatV(l.initial_multiple),
                        benchmark_monthly_fixed_cost_yen |-> benchmark_monthly_fixed_cost_yen,
                        benchmark_monthly_fixed_cost_yen_raw |-> benchmark_monthly_fixed_cost_yen_raw,
                        benchmark_mgmt_fee_estimate_yen |-> IntV(benchmark_mgmt_fee_estimate_yen),
                        benchmark_confidence |-> EnumV(bm.benchmark_confidence),
                        benchmark_n_sources |-> IntV(bm.benchmark_n_sources),
                        benchmark_matched_level |-> EnumV(bm.matched_level),
                        benchmark_adjustments |-> benchmark_adjustments,
                        rent_delta_ratio |->
                            FloatV(rent_delta_ratio_of(l.monthly_fixed_cost_yen,
                                                       benchmark_monthly_fixed_cost_yen)),
                        im_assessment |-> _im_assessment_label_ko(l.initial_multiple, im_market_avg),
                        im_assessment_foreigner |->
                            _im_assessment_label_ko(effective_im_foreigner, im_market_avg),
                        initial_multiple_market_avg |-> FloatV(im_market_avg),
                        initial_multiple_market_delta |->
                            FloatV(l.initial_multiple - im_market_avg),
                        initial_multiple_market_delta_foreigner |->
                            FloatV(effective_im_foreigner - im_market_avg)])
         IN  [derived |-> derived, ctx |-> Updated(l.payload, derived),
              benchmark_monthly_fixed_cost_yen |-> benchmark_monthly_fixed_cost_yen,
              im_market_avg |-> im_market_avg, foreigner_shift |-> foreigner_shift] @@ l

\* the three component scores, each a score or the exception of a feature
evaluate_scores(l) ==
    IF l.raised # None THEN l
    ELSE LET component_score(component) ==
                 _compute_component_score(features_of(ListOf(l.s2, "features"), component),
                                          l.ctx, l.s2)
         IN  [location_score  |-> component_score("location"),
              condition_score |-> component_score("condition"),
              cost_score      |-> component_score("cost")] @@ l

\* the overall score and the grades; the exception of the first component score
\* that raised one leaves the call
evaluate_grades(l) ==
    IF l.raised # None THEN l
    ELSE IF IsRaise(l.location_score) THEN [l EXCEPT !.raised = l.location_score]
    ELSE IF IsRaise(l.condition_score) THEN [l EXCEPT !.raised = l.condition_score]
    ELSE IF IsRaise(l.cost_score) THEN [l EXCEPT !.raised = l.cost_score]
    ELSE LET overall_score ==
                 overall_of(l.s2, l.location_score.v, l.condition_score.v, l.cost_score.v)
             bands(component) == ListOf(Get(l.s2, "grade_thresholds"), component)
             scoring ==
                 DictV([location_score |-> l.location_score,
                        condition_score |-> l.condition_score,
                        cost_score |-> l.cost_score, overall_score |-> FloatV(overall_score)])
             grades ==
                 DictV([location_grade |->
                            EnumV(_grade_for_score(l.location_score.v, bands("location"))),
                        condition_grade |->
                            EnumV(_grade_for_score(l.condition_score.v, bands("condition"))),
                        cost_grade |-> EnumV(_grade_for_score(l.cost_score.v, bands("cost"))),
                        overall_grade |-> EnumV(_grade_for_score(overall_score, bands("overall")))])
         IN  [scoring |-> scoring, grades |-> grades,
              ctx |-> Updated(Updated(l.ctx, scoring), grades)] @@ l

\* the risk flags
evaluate_risk_flags(l) ==
    IF l.raised # None THEN l
    ELSE [risk_flags |-> risk_flag_loop(sorted_by_priority(ListOf(l.s2, "risk_flag_rules"), FALSE),
                                        l.ctx, {}, <<>>)] @@ l

\* the trade-off, which enters the context
evaluate_tradeoff(l) ==
    IF l.raised # None THEN l
    ELSE IF IsRaise(l.risk_flags) THEN [l EXCEPT !.raised = l.risk_flags]
    ELSE [tradeoff |-> tradeoff_loop(sorted_by_priority(ListOf(l.s2, "tradeoff_rules"), FALSE),
                                     l.ctx)] @@ l

\* the what-if results
evaluate_what_if(l) ==
    IF l.raised # None THEN l
    ELSE IF IsRaise(l.tradeoff) THEN [l EXCEPT !.raised = l.tradeoff]
    ELSE LET ctx ==
                 Updated(l.ctx,
                         DictV([tradeoff_tag |-> StrOrNone(Get(l.tradeoff, "tradeoff_tag")),
                                tradeoff_message_key |-> StrOrNone(Get(l.tradeoff, "message_key"))]))
         IN  [ctx |-> ctx,
              what_if_results |->
                  what_if_loop(ListOf(l.s2, "what_if_rules"), l.payload,
                      [ctx |-> ctx, s2 |-> l.s2,
                       benchmark_monthly_fixed_cost_yen |-> l.benchmark_monthly_fixed_cost_yen,
                       foreigner_shift |-> l.foreigner_shift, im_market_avg |-> l.im_market_avg,
                       location_score |-> l.location_score.v,
                       condition_score |-> l.condition_score.v,
                       cost_features |-> features_of(ListOf(l.s2, "features"), "cost")],
                      ListV(<<>>))] @@ l

\* a template selected by ascending priority, as the trade-off is
evaluate_template_ascending(l) ==
    IF l.raised # None THEN l
    ELSE IF IsRaise(l.what_if_results) THEN [l EXCEPT !.raised = l.what_if_results]
    ELSE LET selected ==
                 _select_first_rule_by_priority(sorted_by_priority(ListOf(l.c1, "rules"), FALSE),
                                                l.ctx)
         IN  [tpl |-> IF selected = None THEN EmptyDict ELSE selected] @@ l

\* the template of the report: the first rule, by descending priority, whose
\* "when" is truthy, {} when there is none
evaluate_template(l) ==
    IF l.raised # None THEN l
    ELSE IF IsRaise(l.what_if_results) THEN [l EXCEPT !.raised = l.what_if_results]
    ELSE LET selected ==
                 _select_first_rule_by_priority(sorted_by_priority(ListOf(l.c1, "rules"), TRUE),
                                                l.ctx)
         IN  [tpl |-> IF selected = None THEN EmptyDict ELSE selected] @@ l

\* what evaluate returns: the report, or the exception that leaves the call
evaluate_return(l) ==
    IF l.raised # None THEN l.raised
    ELSE DictV([derived |-> Updated(l.derived, DictV([live_benchmark |-> live_benchmark_of(l.env)])),
                scoring |-> l.scoring,
                grades |-> l.grades,
                report |->
                    DictV([summary_ko |-> _render_placeholders(TextOf(l.tpl, "summary_ko"), l.ctx),
                           evidence_bullets_ko |-> RenderedList(l.tpl, "evidence_bullets_ko", l.ctx),
                           risk_flags |-> l.risk_flags,
                           negotiation_suggestions |->
                               DictV([ko |-> RenderedList(l.tpl, "negotiation_suggestions_ko", l.ctx),
                                      ja |-> RenderedList(l.tpl, "negotiation_suggestions_ja", l.ctx)]),
                           alternative_search_queries_ja |->
                               RenderedList(l.tpl, "alternative_search_queries_ja", l.ctx),
                           what_if_results |-> l.what_if_results])])

\* evaluate: the report, or the exception that leaves the call
evaluate(payload, rt, benchmark_index_override, env) ==
    evaluate_return(evaluate_template(evaluate_what_if(evaluate_tradeoff(evaluate_risk_flags(
        evaluate_grades(evaluate_scores(evaluate_derived(evaluate_benchmark(
            evaluate_validate(payload, rt, benchmark_index_override, env))))))))))

-----------------------------------------------------------------------------
(* Calls of match_benchmark_rent *)

\* the largest n_rows of an index entry
MaxRows == 5

s_tokyo == <<"t", "o", "k", "y", "o">>

s_edo == <<"e", "d", "o">>

s_kita == <<"k", "i", "t", "a">>

Padded(s) == <<" ">> \o s \o <<" ">>

Entry(median, n_rows) ==
    DictV(("benchmark_rent_yen_median" :> median) @@ ("n_rows" :> n_rows) @@ ("sources" :> None))

\* Absent stands for a key the tier does not hold
Absent == [t |-> "absent"]

\* a tier dict holding entry e under key k, or nothing when e is Absent
Tier(k, e) == IF e = Absent THEN EmptyDict ELSE DictV(k :> e)

Index(es, em, ep) ==
    DictV(("by_pref_muni_layout_structure" :> Tier(JoinKey(<<s_tokyo, s_edo, s_1LDK, s_rc>>), es))
       @@ ("by_pref_muni_layout" :> Tier(JoinKey(<<s_tokyo, s_edo, s_1LDK>>), em))
       @@ ("by_pref_layout" :> Tier(JoinKey(<<s_tokyo, s_1LDK>>), ep)))

\* what an index file can hold as n_rows
NRowsValues ==
    {IntV(n) : n \in 0..MaxRows}
        \cup {None, FloatV(19 * (FP \div 10)), StrV(<<" ", "2">>), StrV(<<"x">>)}

StructEntries ==
    {Absent, EmptyDict, Entry(FloatV(160000 * 1), IntV(3)), Entry(None, IntV(3))}
        \cup {Entry(IntV(160000), n) : n \in NRowsValues}

MuniEntries == {Absent, Entry(None, IntV(3))} \cup {Entry(IntV(150000), IntV(n)) : n \in {1, 2, MaxRows}}

PrefEntries == {Absent, Entry(StrV(<<"1">>), IntV(3))} \cup {Entry(IntV(140000), IntV(n)) : n \in {1, MaxRows}}

Municipalities ==
    {None, StrV(<<>>), StrV(<<" ">>), StrV(s_edo), StrV(Padded(s_edo)), StrV(s_kita)}

Structures ==
    {None, StrV(<<>>), StrV(s_rc), StrV(Padded(s_rc)), StrV(Upper(s_rc)), StrV(s_other),
     StrV(Padded(s_other)), StrV(s_all), StrV(s_wood)}

Hedonic(f) ==
    DictV("segmentation" :> DictV("bucket_rules" :> DictV("hedonic_adjustments" :> DictV(f))))

\* benchmark specs of the lookup calls: none, and one that disables the adjustment
LookupSpecs == {None, Hedonic("enabled" :> BoolV(FALSE))}

MatchArgs(pref, muni, layout, structure, index, area, age, walk, orientation, bath, spec) ==
    [fn |-> "match_benchmark_rent", prefecture |-> pref, municipality |-> muni,
     layout_type |-> layout, building_structure |-> structure, index |-> index,
     area_sqm |-> area, building_age_years |-> age, station_walk_min |-> walk,
     orientation |-> orientation, bathroom_toilet_separate |-> bath, benchmark_spec |-> spec]

\* calls that exercise the tier lookup
IsLookupCall(a) ==
    \E muni \in Municipalities, structure \in Structures, es \in StructEntries,
       em \in MuniEntries, ep \in PrefEntries, spec \in LookupSpecs :
        a = MatchArgs(s_tokyo, muni, s_1LDK, structure, Index(es, em, ep), IntV(38), IntV(10),
                      IntV(8), StrV(<<"S">>), BoolV(TRUE), spec)

\* benchmark specs of the adjustment calls
AdjustSpecs ==
    {None,
     DictV("segmentation" :> IntV(0)),
     Hedonic(<<>>),
     Hedonic("enabled" :> BoolV(FALSE)),
     Hedonic(("enabled" :> BoolV(TRUE)) @@ ("strength" :> IntV(1))),
     Hedonic("strength" :> IntV(3)),
     Hedonic("strength" :> FloatV(0 - FP \div 2)),
     Hedonic("strength" :> IntV(0)),
     Hedonic(("total_multiplier_min" :> FloatV(9 * (FP \div 10)))
               @@ ("total_multiplier_max" :> FloatV(95 * (FP \div 100)))),
     Hedonic(("total_multiplier_min" :> FloatV(11 * (FP \div 10)))
               @@ ("total_multiplier_max" :> FloatV(9 * (FP \div 10)))),
     Hedonic(("strength" :> IntV(1))
               @@ ("total_multiplier_min" :> FloatV(5 * (FP \div 10)))
               @@ ("total_multiplier_max" :> FloatV(13 * (FP \div 10)))
               @@ ("building_age_bucket_multipliers" :>
                      DictV(("ge21" :> FloatV(5 * (FP \div 10))) @@ ("0_5" :> IntV(2))
                              @@ ("zz" :> IntV(9))))
               @@ ("station_walk_bucket_multipliers" :>
                      DictV(("ge16" :> IntV(0)) @@ ("11_15" :> StrV(<<"x">>))))
               @@ ("building_structure_multipliers" :>
                      DictV((s_wood :> FloatV(5 * (FP \div 10))) @@ (s_kita :> IntV(9))))
               @@ ("orientation_multipliers" :> DictV(<<"N">> :> FloatV(0 - FP)))
               @@ ("bathroom_toilet_separate_multipliers" :> DictV("false" :> FloatV(8 * (FP \div 10))))
               @@ ("layout_avg_area_sqm" :> DictV(s_1LDK :> IntV(40)))
               @@ ("area_elasticity" :> FloatV(FP \div 2))),
     Hedonic("area_elasticity" :> IntV(0))}

\* calls that exercise the hedonic adjustment
IsAdjustCall(a) ==
    \E structure \in {None, StrV(s_rc), StrV(Padded(Upper(s_wood)))},
       ns \in {1, MaxRows}, nm \in {1, 2, MaxRows},
       area \in {None, IntV(38), FloatV(605 * (FP \div 10))},
       age \in {None, IntV(3), IntV(30)},
       walk \in {None, StrV(<<"1", "2">>), IntV(20)},
       orientation \in {None, StrV(<<" ", "n">>), StrV(<<"S">>)},
       bath \in {None, BoolV(TRUE), BoolV(FALSE)},
       spec \in AdjustSpecs :
        a = MatchArgs(s_tokyo, StrV(s_edo), s_1LDK, structure,
                      Index(Entry(IntV(160000), IntV(ns)), Entry(IntV(150000), IntV(nm)), Absent),
                      area, age, walk, orientation, bath, spec)

\* the call returns
Call_match_benchmark_rent ==
    /\ pc = "call"
    /\ args.fn = "match_benchmark_rent"
    /\ ret' = match_benchmark_rent(args)
    /\ pc' = "done"
    /\ UNCHANGED args

InitLookup == pc = "call" /\ IsLookupCall(args) /\ ret = NoRet

NextMatch == Call_match_benchmark_rent

SpecLookup == InitLookup /\ [][NextMatch]_vars

InitAdjust == pc = "call" /\ IsAdjustCall(args) /\ ret = NoRet

SpecAdjust == InitAdjust /\ [][NextMatch]_vars

-----------------------------------------------------------------------------
(* Claims about match_benchmark_rent *)

Returned == pc = "done" /\ args.fn = "match_benchmark_rent"

ArgMuni == Strip(OrEmpty(args.municipality))

ArgStructure == Strip(OrEmpty(args.building_structure))

StructEntryOf == IndexGet(args.index, "by_pref_muni_layout_structure",
                          JoinKey(<<args.prefecture, ArgMuni, args.layout_type, ArgStructure>>))

MuniEntryOf == IndexGet(args.index, "by_pref_muni_layout",
                        JoinKey(<<args.prefecture, ArgMuni, args.layout_type>>))

PrefEntryOf == IndexGet(args.index, "by_pref_layout", JoinKey(<<args.prefecture, args.layout_type>>))

\* the entry exists and carries an integer median
HasIntMedian(e) == e.t = "dict" /\ Get(e, "benchmark_rent_yen_median").t = "int"

MedianOf(e) == Get(e, "benchmark_rent_yen_median").v

StructureAsked == ArgMuni # <<>> /\ ArgStructure # <<>> /\ ArgStructure \notin {s_other, s_all}

MuniMatches == ArgMuni # <<>> /\ HasIntMedian(MuniEntryOf)

C2_Confidence ==
    Returned =>
        /\ ret.benchmark_confidence = "high" => ret.benchmark_n_sources >= 2
        /\ ret.matched_level = "muni_level" =>
             /\ ret.benchmark_n_sources = n_rows_of(MuniEntryOf)
             /\ ret.benchmark_confidence = (IF n_rows_of(MuniEntryOf) >= 2 THEN "high" ELSE "mid")
        /\ ret.matched_level = "pref_level" =>
             /\ ~MuniMatches
             /\ ret.benchmark_n_sources = n_rows_of(PrefEntryOf)
             /\ ret.benchmark_confidence = "mid"

\* a municipality-tier match on a single sample, and so of confidence "mid"
C2_Witness ==
    /\ Returned
    /\ ret.matched_level = "muni_level"
    /\ ret.benchmark_n_sources = 1
    /\ ret.benchmark_confidence = "mid"

ArgHedonic == _get_hedonic_config(args.benchmark_spec)

\* the strength of the adjustment of the returned match
RetStrength ==
    strength_of(NumOr(Get(ArgHedonic, "strength"), strength_base_default),
                ret.benchmark_n_sources, ret.benchmark_confidence, ret.matched_level)

ArgTotalMin == NumOr(Get(ArgHedonic, "total_multiplier_min"), total_min_default)

ArgTotalMax == NumOr(Get(ArgHedonic, "total_multiplier_max"), total_max_default)

Matched == Returned /\ ret.benchmark_rent_yen_raw # None

\* C4: with the hedonic adjustment disabled, or with a strength <= 0, the
\* adjusted rent is the raw rent and there is no adjustment record.
C4_NoAdjustment ==
    (Matched /\ (Get(ArgHedonic, "enabled") = BoolV(FALSE) \/ RetStrength <= 0)) =>
        /\ ret.benchmark_rent_yen = ret.benchmark_rent_yen_raw
        /\ ret.adjustments_applied = None

\* the adjustment is enabled, and the strength of the match is 0
C4_Witness ==
    /\ Matched
    /\ Get(ArgHedonic, "enabled") # BoolV(FALSE)
    /\ RetStrength = 0
    /\ ret.adjustments_applied = None

\* C5, as the claim states it: of every match with a rent, the rent is
\* round(raw * m) for some m of the configured band [min, max]; rounding is
\* monotonic, so this says round(raw * min) <= rent <= round(raw * max); and
\* the multiplier of an adjustment record lies in the band.
C5_Original ==
    Matched =>
        /\ RoundHalfEven(ret.benchmark_rent_yen_raw.v * ArgTotalMin, FP) <= ret.benchmark_rent_yen.v
        /\ ret.benchmark_rent_yen.v <= RoundHalfEven(ret.benchmark_rent_yen_raw.v * ArgTotalMax, FP)
        /\ ret.adjustments_applied # None =>
             /\ ArgTotalMin <= ret.adjustments_applied.v.multiplier_total
             /\ ret.adjustments_applied.v.multiplier_total <= ArgTotalMax

\* C5, amended: of every match on which the adjustment is applied (there is an
\* adjustment record), the rent is round(raw * m) for the record's total
\* multiplier m; m lies in [min, max] when min <= max, and m = max otherwise.
C5_MultiplierInBand ==
    (Matched /\ ret.adjustments_applied # None) =>
        LET m == ret.adjustments_applied.v.multiplier_total
        IN  /\ ret.benchmark_rent_yen = IntV(RoundHalfEven(ret.benchmark_rent_yen_raw.v * m, FP))
            /\ ArgTotalMin <= ArgTotalMax => (ArgTotalMin <= m /\ m <= ArgTotalMax)
            /\ ArgTotalMin > ArgTotalMax => m = ArgTotalMax

\* the adjustment was applied and the clamp was binding
C5_Witness ==
    /\ Matched
    /\ ret.adjustments_applied # None
    /\ ArgTotalMin <= ArgTotalMax
    /\ ret.adjustments_applied.v.multiplier_total_unclamped
         # ret.adjustments_applied.v.multiplier_total_clamped

-----------------------------------------------------------------------------
(* Calls of _compute_component_score *)

MaxFeats == 3

Restrict(d, keys) == DictV([k \in (keys \cap DOMAIN d.v) |-> d.v[k]])

CtxKeys == {"bathroom_toilet_separate", "initial_multiple", "station_walk_min",
            "rent_delta_ratio", "orientation", "benchmark_confidence"}

FullCtx1 == DictV([bathroom_toilet_separate |-> BoolV(TRUE), initial_multiple |-> FloatV(4 * FP),
                   station_walk_min |-> IntV(5), rent_delta_ratio |-> FloatV(1000),
                   orientation |-> EnumV("S"), benchmark_confidence |-> EnumV("high")])

FullCtx2 == DictV([bathroom_toilet_separate |-> BoolV(FALSE), initial_multiple |-> FloatV(6 * FP),
                   station_walk_min |-> IntV(26), rent_delta_ratio |-> FloatV(-500),
                   orientation |-> EnumV("UNKNOWN"), benchmark_confidence |-> EnumV("none")])

PresentKeys == {CtxKeys, {},
                {"bathroom_toilet_separate", "station_walk_min", "benchmark_confidence"},
                {"orientation", "initial_multiple", "rent_delta_ratio"}}

Contexts == {Restrict(c, K) : c \in {FullCtx1, FullCtx2}, K \in PresentKeys}

S2Configs == {EmptyDict,
              DictV([foreigner_adjustment |-> DictV([foreign_im_shift_months |-> FloatV(2 * FP)])])}

Feature(input_key, method, params) ==
    [input_key |-> EnumV(input_key), method |-> EnumV(method), params |-> DictV(params)]

Bucket(bound, x, score) ==
    IF bound = "max" THEN DictV([max |-> x, score |-> IntV(score)])
    ELSE DictV([min |-> x, score |-> IntV(score)])

FeatureKinds(i) ==
    CASE i = 1 ->
           {Feature("bathroom_toilet_separate", "boolean",
                    [true_score |-> IntV(100), false_score |-> IntV(40)]),
            Feature("initial_multiple", "bucket",
                    [apply_foreigner_adjustment |-> EnumV("im_shift_months"),
                     buckets |-> ListV(<<Bucket("max", IntV(3), 100), Bucket("max", IntV(5), 60),
                                         Bucket("min", FloatV(55000), 20)>>)])}
      [] i = 2 ->
           {Feature("station_walk_min", "linear",
                    [min_x |-> IntV(0), max_x |-> IntV(20), min_score |-> IntV(0),
                     max_score |-> IntV(100), direction |-> EnumV("lower_is_better"),
                     clamp |-> BoolV(TRUE)]),
            Feature("rent_delta_ratio", "linear",
                    [min_x |-> FloatV(-2000), max_x |-> FloatV(2000), min_score |-> IntV(0),
                     max_score |-> IntV(100), direction |-> EnumV("lower_is_better"),
                     confidence_key |-> EnumV("benchmark_confidence"),
                     neutral_score_if_confidence_in |-> ListV(<<EnumV("none")>>),
                     neutral_score |-> IntV(50)])}
      [] i = 3 ->
           {Feature("orientation", "lookup",
                    [table |-> DictV([S |-> IntV(100), N |-> IntV(40)]), default_score |-> IntV(60)]),
            Feature("orientation", "nearest", [table |-> EmptyDict])}
      [] OTHER ->
           {Feature("station_walk_min", "bucket",
                    [buckets |-> ListV(<<Bucket("max", IntV(10), 90)>>)])}

Weights == {None, FloatV(0), FloatV(5000), IntV(1), FloatV(-5000)}

\* a feature of the component, with its weight when the specification gives one
Weighted(f, w) ==
    IF w = None THEN DictV(f)
    ELSE DictV([k \in DOMAIN f \cup {"weight"} |-> IF k = "weight" THEN w ELSE f[k]])

RECURSIVE Components(_)
\* the lists of features of the kinds of the positions from i on
Components(i) ==
    IF i > MaxFeats THEN {<<>>}
    ELSE LET rest == Components(i + 1)
         IN  rest \cup {<<Weighted(f, w)>> \o r : f \in FeatureKinds(i), w \in Weights, r \in rest}

ScoreArgs(component_feats, ctx, s2) ==
    [fn |-> "_compute_component_score", component_feats |-> component_feats, ctx |-> ctx, s2 |-> s2]

IsScoreCall(a) ==
    \E component_feats \in Components(1), ctx \in Contexts, s2 \in S2Configs :
        a = ScoreArgs(component_feats, ctx, s2)

Call__compute_component_score ==
    /\ pc = "call"
    /\ args.fn = "_compute_component_score"
    /\ ret' = _compute_component_score(args.component_feats, args.ctx, args.s2)
    /\ pc' = "done"
    /\ UNCHANGED args

InitScore == pc = "call" /\ IsScoreCall(args) /\ ret = NoRet

NextScore == Call__compute_component_score

SpecScore == InitScore /\ [][NextScore]_vars

-----------------------------------------------------------------------------
(* Claims about _compute_component_score *)

ScoreReturned == pc = "done" /\ args.fn = "_compute_component_score"

\* the _feature_score of each feature of the call
FeatScores ==
    [i \in 1..Len(args.component_feats) |->
        _feature_score(args.component_feats[i], args.ctx, args.s2)]

NoSpecError == \A i \in DOMAIN FeatScores : FeatScores[i].t # "raise"

AllPresent == \A i \in DOMAIN FeatScores : FeatScores[i].t = "float"

SomeAbsent == \E i \in DOMAIN FeatScores : FeatScores[i] = None

\* the sum of the weights of all the features, in hundredths
declared_weight ==
    SumSeq([i \in DOMAIN FeatScores |-> all_weight_term(args.component_feats[i], FeatScores[i])])

\* the sum of the weights of the features with a score, in hundredths
available_weight ==
    SumSeq([i \in DOMAIN FeatScores |-> avail_weight_term(args.component_feats[i], FeatScores[i])])

\* the sum of weight * score over the features with a score
weighted_sum ==
    SumSeq([i \in DOMAIN FeatScores |-> total_term(args.component_feats[i], FeatScores[i])])

\* C6: with every input present, the component score is the sum of
\* weight * score divided by the sum of the weights
C6_Original ==
    (ScoreReturned /\ AllPresent /\ declared_weight > 0)
        => ret = FloatV(RoundHalfEven(weighted_sum * 100, declared_weight))

\* C7 as stated: with some input absent and available_weight > 0, the component
\* score is (declared_weight / available_weight) * the weighted sum
C7_Original ==
    (ScoreReturned /\ NoSpecError /\ SomeAbsent /\ available_weight > 0)
        => ret = FloatV(RoundHalfEven(weighted_sum * declared_weight, available_weight))

\* C7: with some input absent and available_weight > 0, the component score is
\* (declared_weight / available_weight) * the weighted sum when
\* declared_weight > 0, and the weighted sum itself when declared_weight <= 0
C7_Renormalized ==
    (ScoreReturned /\ NoSpecError /\ SomeAbsent /\ available_weight > 0)
        => ret = FloatV(IF declared_weight > 0
                        THEN RoundHalfEven(weighted_sum * declared_weight, available_weight)
                        ELSE weighted_sum)

C7_Witness ==
    /\ ScoreReturned /\ NoSpecError /\ SomeAbsent
    /\ available_weight > 0
    /\ declared_weight > available_weight
    /\ ret.v > weighted_sum

\* C8: a feature set whose available_weight is <= 0 scores exactly 70.0
C8_NoSignalDefault ==
    (ScoreReturned /\ NoSpecError /\ available_weight <= 0) => ret = FloatV(70 * FP)

C8_Witness ==
    /\ ScoreReturned /\ AllPresent
    /\ Len(args.component_feats) > 0
    /\ available_weight <= 0
    /\ ret = FloatV(70 * FP)

-----------------------------------------------------------------------------
(* Calls of _grade_for_score *)

MaxBands == 3

Band(g, m) == DictV([grade |-> g, min_score |-> m])

\* bands of the specification, one without a number and one without a grade
Bands ==
    {Band(EnumV(g), m) : g \in {"A", "B"}, m \in {IntV(80), IntV(50), FloatV((0 - 5) * FP), None}}
        \cup {DictV([min_score |-> IntV(0)])}

RECURSIVE BandLists(_)
\* the lists of at most n bands
BandLists(n) ==
    IF n = 0 THEN {<<>>}
    ELSE LET shorter == BandLists(n - 1)
         IN  shorter \cup {<<b>> \o q : b \in Bands, q \in {r \in shorter : Len(r) = n - 1}}

Scores == {(0 - 7) * FP, (0 - 3) * FP, 0, 50 * FP, 65 * FP, 80 * FP, 100 * FP}

\* two calls with the same bands, the first with the lower score
GradeArgs(score1, score2, bands) ==
    [fn |-> "_grade_for_score", scores |-> <<score1, score2>>, bands |-> bands]

IsGradeCall(a) ==
    \E score1 \in Scores, score2 \in Scores, bands \in BandLists(MaxBands) :
        score1 <= score2 /\ a = GradeArgs(score1, score2, bands)

Call__grade_for_score ==
    /\ pc = "call"
    /\ args.fn = "_grade_for_score"
    /\ ret' = [i \in {1, 2} |->
                 [grade    |-> _grade_for_score(args.scores[i], args.bands),
                  best_min |-> grade_locals(args.scores[i], args.bands).best_min]]
    /\ pc' = "done"
    /\ UNCHANGED args

InitGrade == pc = "call" /\ IsGradeCall(args) /\ ret = NoRet

NextGrade == Call__grade_for_score

SpecGrade == InitGrade /\ [][NextGrade]_vars

-----------------------------------------------------------------------------
(* Claims about _grade_for_score *)

GradeReturned == pc = "done" /\ args.fn = "_grade_for_score"

\* band i has a grade and a threshold
IsBand(i) == Get(args.bands[i], "grade").t = "enum" /\ IsNum(Get(args.bands[i], "min_score"))

ThresholdOf(i) == AsFP(Get(args.bands[i], "min_score"))

\* the bands whose threshold is <= score
Qualifying(score) == {i \in 1..Len(args.bands) : IsBand(i) /\ ThresholdOf(i) <= score}

\* the first-seen band among those of the highest threshold <= score
FirstHighest(score) ==
    CHOOSE i \in Qualifying(score) :
        \A j \in Qualifying(score) :
            ThresholdOf(j) < ThresholdOf(i) \/ (ThresholdOf(j) = ThresholdOf(i) /\ i <= j)

\* C9: the grade is that of the first-seen band among those of the highest
\* min_score <= score, and "D" when no band has min_score <= score
C9_Original ==
    GradeReturned =>
        ret[1].grade = IF Qualifying(args.scores[1]) = {} THEN "D"
                       ELSE Get(args.bands[FirstHighest(args.scores[1])], "grade").v

\* some band is selected for the score, the grade is not the default
BandSelected(score) == \E i \in Qualifying(score) : ThresholdOf(i) >= 0 - FP

\* C10: for scores s1 <= s2 and the same bands, when a band is selected for s1
\* one is selected for s2, its min_score is >= that of the band of s1, and the
\* grade is the same when the min_score is
C10_Monotonic ==
    (GradeReturned /\ BandSelected(args.scores[1]))
        => /\ BandSelected(args.scores[2])
           /\ ret[1].best_min <= ret[2].best_min
           /\ (ret[1].best_min = ret[2].best_min => ret[1].grade = ret[2].grade)

C10_Witness ==
    /\ GradeReturned
    /\ args.scores[1] < args.scores[2]
    /\ BandSelected(args.scores[1])
    /\ ret[1].best_min < ret[2].best_min
    /\ ret[1].grade # ret[2].grade

-----------------------------------------------------------------------------
(* Calls of evaluate *)

s_S == <<"S">>

s_shinjuku == <<"s", "h", "i", "n", "j", "u", "k", "u">>

Field(key, type, constraints, unit) ==
    DictV([key |-> EnumV(key), type |-> EnumV(type), constraints |-> DictV(constraints),
           unit |-> EnumV(unit)])

\* an input schema: the fields, and the required ones
S1 ==
    DictV([fields |-> ListV(<<
               Field("hub_station", "enum",
                     [enum_values |-> ListV(<<StrV(s_shinjuku), StrV(s_other)>>)], "none"),
               Field("hub_station_other_name", "string", <<>>, "none"),
               Field("prefecture", "enum",
                     [enum_values |-> ListV(<<StrV(s_tokyo), StrV(<<"o", "s", "a", "k", "a">>)>>)],
                     "none"),
               Field("municipality", "string", <<>>, "none"),
               Field("station_walk_min", "integer", [min |-> IntV(0), max |-> IntV(60)], "min"),
               Field("layout_type", "enum", [enum_values |-> ListV(<<StrV(s_1K), StrV(s_1LDK)>>)],
                     "none"),
               Field("building_structure", "enum",
                     [enum_values |-> ListV(<<StrV(s_wood), StrV(s_rc), StrV(s_other)>>)], "none"),
               Field("area_sqm", "number", [min |-> IntV(5), max |-> IntV(200)], "sqm"),
               Field("building_built_year", "integer", [min |-> IntV(1950)], "year"),
               Field("orientation", "enum",
                     [enum_values |-> ListV(<<StrV(s_S), StrV(<<"N">>), StrV(s_UNKNOWN)>>)], "none"),
               Field("bathroom_toilet_separate", "boolean", <<>>, "none"),
               Field("rent_yen", "integer", [min |-> IntV(0), max |-> IntV(100000)], "yen"),
               Field("mgmt_fee_yen", "integer", [min |-> IntV(0)], "yen"),
               Field("initial_cost_total_yen", "integer", [min |-> IntV(0)], "yen"),
               Field("key_money_yen", "integer", [min |-> IntV(0)], "yen")>>),
           mvp_required_fields |-> ListV(<<EnumV("hub_station"), EnumV("prefecture"),
               EnumV("layout_type"), EnumV("building_built_year"), EnumV("rent_yen"),
               EnumV("mgmt_fee_yen"), EnumV("initial_cost_total_yen")>>)])

\* {"op": [a, b]}
Op(op, a, b) == DictV([k \in {op} |-> ListV(<<a, b>>)])

Var(key) == DictV([var |-> EnumV(key)])

ComponentFeature(component, input_key, method, weight, params) ==
    DictV([component |-> EnumV(component), input_key |-> EnumV(input_key),
           method |-> EnumV(method), weight |-> weight, params |-> DictV(params)])

GradeBands == ListV(<<Band(EnumV("A"), IntV(80)), Band(EnumV("B"), IntV(60)), Band(EnumV("C"), IntV(40))>>)

Rule(priority, when, outputs) ==
    DictV([priority |-> IntV(priority), when |-> when, outputs |-> DictV(outputs)])

\* a scoring specification, with or without the shift of the initial multiple
S2(foreigner) ==
    Updated(
      DictV([features |-> ListV(<<
                 ComponentFeature("location", "station_walk_min", "linear", IntV(1),
                     [min_x |-> IntV(0), max_x |-> IntV(20), min_score |-> IntV(0),
                      max_score |-> IntV(100), direction |-> EnumV("lower_is_better"),
                      clamp |-> BoolV(TRUE)]),
                 ComponentFeature("condition", "bathroom_toilet_separate", "boolean", FloatV(5000),
                     [true_score |-> IntV(100), false_score |-> IntV(40)]),
                 ComponentFeature("condition", "orientation", "lookup", FloatV(5000),
                     [table |-> DictV((s_S :> IntV(100)) @@ (<<"N">> :> IntV(40)))]),
                 ComponentFeature("cost", "rent_delta_ratio", "linear", FloatV(5000),
                     [min_x |-> FloatV(-2000), max_x |-> FloatV(2000), min_score |-> IntV(0),
                      max_score |-> IntV(100), direction |-> EnumV("lower_is_better"),
                      clamp |-> BoolV(TRUE), confidence_key |-> EnumV("benchmark_confidence"),
                      neutral_score_if_confidence_in |-> ListV(<<EnumV("none")>>)]),
                 ComponentFeature("cost", "initial_multiple", "bucket", FloatV(5000),
                     [apply_foreigner_adjustment |-> EnumV("im_shift_months"),
                      buckets |-> ListV(<<Bucket("max", IntV(3), 100), Bucket("max", IntV(5), 60),
                                          Bucket("min", IntV(5), 20)>>)])>>),
             weights |-> DictV([location |-> FloatV(3000), condition |-> FloatV(3000),
                                cost |-> FloatV(4000)]),
             grade_thresholds |-> DictV([location |-> GradeBands, condition |-> GradeBands,
                                         cost |-> GradeBands, overall |-> GradeBands]),
             risk_flag_rules |-> ListV(<<
                 Rule(2, Op("==", Var("benchmark_confidence"), EnumV("none")),
                      [risk_flag_id |-> EnumV("no_benchmark"), severity |-> EnumV("low")]),
                 Rule(1, Op(">", Var("rent_delta_ratio"), FloatV(1000)),
                      [risk_flag_id |-> EnumV("overpriced"), severity |-> EnumV("high")])>>),
             tradeoff_rules |-> ListV(<<
                 Rule(1, Op("and", Op(">=", Var("location_score"), IntV(60)),
                                   Op("<", Var("cost_score"), IntV(60))),
                      [tradeoff_tag |-> EnumV("good_location_high_cost"),
                       message_key |-> EnumV("tradeoff_location_cost")])>>),
             what_if_rules |-> ListV(<<
                 DictV([id |-> EnumV("negotiate"),
                        enabled_if |-> Op(">", Var("initial_cost_total_yen"), IntV(0)),
                        actions |-> ListV(<<
                            DictV([target_key |-> EnumV("key_money_yen"), type |-> EnumV("set_zero")]),
                            DictV([target_key |-> EnumV("rent_yen"), type |-> EnumV("delta_yen"),
                                   value |-> IntV(0 - 5000)])>>)])>>)]),
      IF foreigner
      THEN DictV([foreigner_adjustment |-> DictV([foreign_im_shift_months |-> IntV(1)])])
      ELSE EmptyDict)

Template(priority, when, pieces) ==
    DictV([priority |-> IntV(priority), when |-> when, summary_ko |-> TextV(pieces),
           evidence_bullets_ko |-> ListV(<<TextV(<<EnumV("rent "), Token("rent_yen")>>)>>)])

\* report templates: with a catch-all rule, without one, and none at all
C1Configs ==
    {DictV([rules |-> ListV(<<
                Template(0, BoolV(TRUE), <<EnumV("overall "), Token("overall_grade")>>),
                Template(50, Op("==", Var("benchmark_confidence"), EnumV("none")),
                         <<EnumV("benchmark confidence "), Token("benchmark_confidence")>>)>>)]),
     DictV([rules |-> ListV(<<
                Template(10, Op("<", Var("rent_delta_ratio"), IntV(0)),
                         <<EnumV("below benchmark "), Token("rent_delta_ratio")>>)>>)]),
     EmptyDict}

LiveResult(rent, n, confidence, level) ==
    [t |-> "result", benchmark_rent_yen |-> rent, benchmark_rent_yen_raw |-> rent,
     benchmark_n_sources |-> n, benchmark_confidence |-> confidence, matched_level |-> level,
     error |-> None]

Env(live_enabled, search) ==
    [current_year |-> 2026, live_enabled |-> live_enabled, live_available |-> TRUE,
     search |-> search]

Envs ==
    {Env(FALSE, None), Env(TRUE, Raise("ConnectionError")),
     Env(TRUE, LiveResult(None, 0, "none", "none")),
     Env(TRUE, LiveResult(IntV(120000), 5, "high", "suumo_live"))}

FullPayload(rent_yen, mgmt_fee_yen) ==
    DictV([hub_station |-> StrV(s_shinjuku), prefecture |-> StrV(s_tokyo),
           municipality |-> StrV(s_edo), station_walk_min |-> IntV(8),
           layout_type |-> StrV(s_1LDK), building_structure |-> StrV(s_rc),
           area_sqm |-> IntV(38), building_built_year |-> IntV(2018),
           orientation |-> StrV(s_S), bathroom_toilet_separate |-> BoolV(TRUE),
           rent_yen |-> rent_yen, mgmt_fee_yen |-> IntV(mgmt_fee_yen),
           initial_cost_total_yen |-> IntV(300000), key_money_yen |-> IntV(100000)])

PayloadKeys == DOMAIN FullPayload(IntV(0), 0).v

\* payloads: with and without the optional keys, and one of a rent that is no integer
Payloads ==
    {Restrict(FullPayload(rent_yen, mgmt_fee_yen), PayloadKeys \ without) :
        rent_yen \in {IntV(80000), IntV(150000), StrV(<<"8">>)}, mgmt_fee_yen \in {0, 10000},
        without \in {{}, {"municipality"}, {"building_structure", "orientation"},
                     {"municipality", "building_structure", "station_walk_min", "area_sqm",
                      "bathroom_toilet_separate", "key_money_yen"}}}

\* the index given to the call in place of that of the runtime, if any
IndexOverrides ==
    {None, EmptyDict, Index(Absent, Absent, Absent),
     Index(Entry(IntV(160000), IntV(3)), Absent, Absent),
     Index(Absent, Entry(IntV(150000), IntV(1)), Absent),
     Index(Absent, Absent, Entry(IntV(140000), IntV(MaxRows)))}

RuntimeOf(s2, c1, d1) ==
    [spec |-> DictV([S1 |-> S1, S2 |-> s2, C1 |-> c1, D1 |-> d1]),
     benchmark_index |-> Index(Entry(IntV(160000), IntV(3)), Entry(IntV(150000), IntV(2)),
                               Entry(IntV(140000), IntV(MaxRows)))]

EvaluateArgs(payload, rt, benchmark_index_override, env) ==
    [fn |-> "evaluate", payload |-> payload, rt |-> rt,
     benchmark_index_override |-> benchmark_index_override, env |-> env]

IsEvaluateCall(a) ==
    \E payload \in Payloads, foreigner \in BOOLEAN, c1 \in C1Configs, d1 \in LookupSpecs,
       benchmark_index_override \in IndexOverrides, env \in Envs :
        a = EvaluateArgs(payload, RuntimeOf(S2(foreigner), c1, d1), benchmark_index_override, env)

Call_evaluate ==
    /\ pc = "call"
    /\ args.fn = "evaluate"
    /\ ret' = evaluate(args.payload, args.rt, args.benchmark_index_override, args.env)
    /\ pc' = "done"
    /\ UNCHANGED args

InitEvaluate == pc = "call" /\ IsEvaluateCall(args) /\ ret = NoRet

NextEvaluate == Call_evaluate

SpecEvaluate == InitEvaluate /\ [][NextEvaluate]_vars

-----------------------------------------------------------------------------
(* Claims about evaluate *)

EvaluateReturned == pc = "done" /\ args.fn = "evaluate"

PayloadValid == _validate_input(args.payload, Get(args.rt.spec, "S1"))

\* the index that the call reads
IndexRead ==
    IF args.benchmark_index_override # None THEN args.benchmark_index_override
    ELSE args.rt.benchmark_index

\* no tier of the index has an entry under the keys of the listing
NoIndexEntry ==
    LET pref      == StrOf(args.payload.v.prefecture)
        layout    == StrOf(args.payload.v.layout_type)
        muni      == Strip(OrEmpty(OptStr(Get(args.payload, "municipality"))))
        structure == Strip(StrOr(args.payload, "building_structure", s_other).v)
    IN  /\ IndexGet(IndexRead, "by_pref_muni_layout_structure",
                    JoinKey(<<pref, muni, layout, structure>>)) = None
        /\ IndexGet(IndexRead, "by_pref_muni_layout", JoinKey(<<pref, muni, layout>>)) = None
        /\ IndexGet(IndexRead, "by_pref_layout", JoinKey(<<pref, layout>>)) = None

\* the call is one of a listing that nothing matches: the payload is accepted,
\* the index has no entry and no live result is used
NothingMatches == EvaluateReturned /\ PayloadValid /\ NoIndexEntry /\ ~live_used_of(args.env)

\* the match of the index for the listing of the call
IndexMatch ==
    benchmark_of(args.payload, args.rt, args.benchmark_index_override,
                 Env(FALSE, None),
                 Max2(0, args.env.current_year - IntOf(args.payload.v.building_built_year)))

Derived(key) == ret.v.derived.v[key]

\* the report of a listing that nothing matches, but for its summary
UnmatchedReport ==
    /\ IndexMatch = BenchmarkMatch(None, None, 0, "none", "none", None)
    /\ ret.t = "dict"
    /\ DOMAIN ret.v = {"derived", "scoring", "grades", "report"}
    /\ Derived("benchmark_confidence") = EnumV("none")
    /\ Derived("benchmark_matched_level") = EnumV("none")
    /\ Derived("benchmark_n_sources") = IntV(0)
    /\ Derived("benchmark_monthly_fixed_cost_yen") = None
    /\ Derived("benchmark_monthly_fixed_cost_yen_raw") = None
    /\ Derived("benchmark_adjustments") = None
    /\ Derived("rent_delta_ratio") = FloatV(0)
    /\ Derived("benchmark_mgmt_fee_estimate_yen") = IntV(0)
    /\ \A k \in {"location_score", "condition_score", "cost_score", "overall_score"} :
          ret.v.scoring.v[k].t = "float"
    /\ \A k \in {"location_grade", "condition_grade", "cost_grade", "overall_grade"} :
          ret.v.grades.v[k].t = "enum"

TemplateRules == ListOf(Get(args.rt.spec, "C1"), "rules")

\* the templates hold a catch-all rule, and each has a summary that is not empty
CatchAllConfigured ==
    /\ \E i \in DOMAIN TemplateRules : Get(TemplateRules[i], "when") = BoolV(TRUE)
    /\ \A i \in DOMAIN TemplateRules : ~IsEmptyText(TextOf(TemplateRules[i], "summary_ko"))

-----------------------------------------------------------------------------
(* Calls of evaluate with lists of rules *)

MaxRules == 2

RECURSIVE RuleLists(_, _)
\* the lists of at most n rules of a pool
RuleLists(pool, n) ==
    IF n = 0 THEN {<<>>}
    ELSE LET shorter == RuleLists(pool, n - 1)
         IN  shorter \cup {<<r>> \o q : r \in pool, q \in {s \in shorter : Len(s) = n - 1}}

\* a "when" that holds for every listing
Always == Op(">", Var("rent_yen"), IntV(0))

\* a "when" of an operator that apply does not know
Unsupported == Op("xor", Var("rent_yen"), IntV(0))

\* a "when" that orders a string and a number
Incomparable == Op("<", Var("layout_type"), IntV(3))

NoBenchmark == Op("==", Var("benchmark_confidence"), EnumV("none"))

Flag(priority, when, risk_flag_id, severity) ==
    Rule(priority, when, [risk_flag_id |-> EnumV(risk_flag_id), severity |-> EnumV(severity)])

\* risk-flag rules: of one id at several priorities, of equal priority, of a
\* "when" that raises, without "when", without priority, without id
RiskFlagRules ==
    {Flag(1, NoBenchmark, "no_benchmark", "low"),
     Flag(2, Op(">", Var("rent_delta_ratio"), FloatV(1000)), "overpriced", "high"),
     Flag(3, Always, "no_benchmark", "high"),
     Flag(1, Always, "overpriced", "low"),
     Restrict(Flag(0, Always, "listed", "low"), {"when", "outputs"}),
     Flag(1, Unsupported, "broken", "low"),
     Flag(2, Incomparable, "broken", "high"),
     Restrict(Flag(0, Always, "unconditional", "low"), {"priority", "outputs"}),
     Rule(0, Always, [severity |-> EnumV("low")])}

Tradeoff(priority, when, tradeoff_tag) ==
    Rule(priority, when, [tradeoff_tag |-> tradeoff_tag, message_key |-> EnumV("message")])

\* trade-off rules: of several priorities, of a "when" that raises, without
\* "when", of a tag that is no string
TradeoffRules ==
    {Tradeoff(1, NoBenchmark, EnumV("unknown_market")),
     Tradeoff(2, Always, EnumV("plain")),
     Tradeoff(0, Op("<", Var("rent_delta_ratio"), IntV(0)), EnumV("cheap")),
     Tradeoff(2, Always, EnumV("plain_again")),
     Tradeoff(3, Always, IntV(5)),
     Tradeoff(1, Unsupported, EnumV("broken")),
     Restrict(Tradeoff(0, Always, EnumV("unconditional")), {"priority", "outputs"})}

\* report templates, each with the summary that names it and shows the
\* trade-off tag of the context
Named(priority, when, name) == Template(priority, when, <<EnumV(name), Token("tradeoff_tag")>>)

TemplateRulePool ==
    {Named(0, BoolV(TRUE), "fallback"),
     Named(50, NoBenchmark, "unknown_market"),
     Named(10, Op("<", Var("rent_delta_ratio"), IntV(0)), "cheap"),
     Named(10, Always, "plain"),
     Named(100, Unsupported, "broken"),
     Named(60, Incomparable, "broken_too"),
     Restrict(Named(70, Always, "unconditional"),
              {"priority", "summary_ko", "evidence_bullets_ko"})}

Action(target_key, type, value) ==
    DictV([target_key |-> EnumV(target_key), type |-> EnumV(type), value |-> value])

WhatIf(id, enabled_if, actions) ==
    DictV([id |-> EnumV(id), enabled_if |-> enabled_if, actions |-> ListV(actions)])

\* what-if rules: of one and of several actions, of an action of an unknown
\* type, of an action that is no dict, disabled, of an "enabled_if" that
\* raises, without "enabled_if"
WhatIfRules ==
    {WhatIf("no_key_money", Always, <<Action("key_money_yen", "set_zero", None)>>),
     WhatIf("negotiate", NoBenchmark,
            <<Action("rent_yen", "delta_yen", IntV(0 - 5000)),
              Action("initial_cost_total_yen", "scale", FloatV(5000))>>),
     WhatIf("mixed", Always,
            <<Action("rent_yen", "waive", IntV(1)), IntV(7),
              Action("mgmt_fee_yen", "delta_yen", IntV(0 - 20000))>>),
     WhatIf("cheap_only", Op("<", Var("rent_delta_ratio"), IntV(0)),
            <<Action("rent_yen", "scale", FloatV(9000))>>),
     WhatIf("broken", Unsupported, <<Action("key_money_yen", "set_zero", None)>>),
     Restrict(WhatIf("unconditional", Always, <<Action("key_money_yen", "set_zero", None)>>),
              {"id", "actions"})}

\* the scoring specification with the rules of one kind replaced
S2With(key, rules) == Updated(S2(FALSE), DictV([k \in {key} |-> ListV(rules)]))

\* the scoring specification of the calls that vary the templates: two
\* trade-off rules, the one of higher priority number listed first
S2Listed ==
    S2With("tradeoff_rules",
           <<Tradeoff(2, Always, EnumV("plain")), Tradeoff(1, NoBenchmark, EnumV("unknown_market"))>>)

\* the templates of the calls that vary the rules of the scoring specification
C1Shown == DictV([rules |-> ListV(<<Named(0, BoolV(TRUE), "fallback")>>)])

\* the listings of the calls: cheap and dear, with and without a benchmark
IsRulesListing(payload, benchmark_index_override) ==
    /\ payload \in {FullPayload(IntV(80000), 10000), FullPayload(IntV(150000), 10000)}
    /\ benchmark_index_override \in {None, EmptyDict}

\* the calls vary the rules of one kind at a time
IsRulesCall(a) ==
    \E payload \in Payloads, benchmark_index_override \in IndexOverrides :
        /\ IsRulesListing(payload, benchmark_index_override)
        /\ \/ \E rules \in RuleLists(RiskFlagRules, MaxRules) :
                 a = EvaluateArgs(payload,
                         RuntimeOf(S2With("risk_flag_rules", rules), C1Shown, EmptyDict),
                         benchmark_index_override, Env(FALSE, None))
           \/ \E rules \in RuleLists(TradeoffRules, MaxRules) :
                 a = EvaluateArgs(payload,
                         RuntimeOf(S2With("tradeoff_rules", rules), C1Shown, EmptyDict),
                         benchmark_index_override, Env(FALSE, None))
           \/ \E rules \in RuleLists(WhatIfRules, MaxRules) :
                 a = EvaluateArgs(payload,
                         RuntimeOf(S2With("what_if_rules", rules), C1Shown, EmptyDict),
                         benchmark_index_override, Env(FALSE, None))
           \/ \E rules \in RuleLists(TemplateRulePool, MaxRules) :
                 a = EvaluateArgs(payload,
                         RuntimeOf(S2Listed, DictV([rules |-> ListV(rules)]), EmptyDict),
                         benchmark_index_override, Env(FALSE, None))

InitRules == pc = "call" /\ IsRulesCall(args) /\ ret = NoRet

SpecRules == InitRules /\ [][NextEvaluate]_vars

-----------------------------------------------------------------------------
(* Claims about the rules of evaluate *)

\* the rules of a kind of the scoring specification of the call
S2Rules(key) == ListOf(Get(args.rt.spec, "S2"), key)

\* evaluate has returned a report
ReportReturned == EvaluateReturned /\ ret.t = "dict"

\* the context that the rules of the report were read against: the payload, the
\* derived values, the scores and the grades
ReportCtx ==
    Updated(Updated(Updated(args.payload, ret.v.derived), ret.v.scoring), ret.v.grades)

\* the expression raises an error when it is evaluated for the listing
Raises(cond) == cond # None /\ IsRaise(apply(cond, args.payload))

\* a risk-flag rule, a trade-off rule or a what-if rule of the call has a
\* condition whose evaluation raises
SomeRuleRaises ==
    \/ \E key \in {"risk_flag_rules", "tradeoff_rules"} :
          \E i \in DOMAIN S2Rules(key) : Raises(Get(S2Rules(key)[i], "when"))
    \/ \E i \in DOMAIN S2Rules("what_if_rules") :
          Raises(Get(S2Rules("what_if_rules")[i], "enabled_if"))

\* C11 as stated: a risk-flag, trade-off or what-if rule whose condition raises
\* during its evaluation never aborts the evaluation: evaluate still returns a
\* complete report
C11_Original ==
    (EvaluateReturned /\ PayloadValid /\ SomeRuleRaises) =>
        (ret.t = "dict" /\ DOMAIN ret.v = {"derived", "scoring", "grades", "report"})

\* the condition of the rule is truthy in the context of the report
Matches(cond) ==
    /\ cond # None
    /\ ~IsRaise(apply(cond, ReportCtx))
    /\ Truthy(apply(cond, ReportCtx))

RiskFlags == ret.v.report.v.risk_flags.v

FlagRules == S2Rules("risk_flag_rules")

FlagIdOf(r) == Get(Get(r, "outputs"), "risk_flag_id")

\* the priority number that the rule declares, 0 when it declares none
DeclaredPriority(r) == IF Get(r, "priority") = None THEN 0 ELSE Get(r, "priority").v

\* the risk-flag rules that match and name a flag
Flagging == {j \in DOMAIN FlagRules : Matches(Get(FlagRules[j], "when")) /\ IsStr(FlagIdOf(FlagRules[j]))}

\* the lowest priority number among the matching rules of the flag
LowestPriority(id) ==
    CHOOSE p \in {DeclaredPriority(FlagRules[j]) : j \in Flagging} :
        /\ \E j \in Flagging : FlagIdOf(FlagRules[j]) = id /\ DeclaredPriority(FlagRules[j]) = p
        /\ \A j \in Flagging : FlagIdOf(FlagRules[j]) = id => p <= DeclaredPriority(FlagRules[j])

\* C12: the risk flags of a report are one entry {risk_flag_id, severity} for
\* each distinct id among the matching risk-flag rules, in ascending order of
\* the priority of the rules they come from, and the entry of an id that
\* several matching rules name has the severity of one of lowest priority
C12_RiskFlags ==
    ReportReturned =>
        /\ \A i, k \in DOMAIN RiskFlags :
              i # k => RiskFlags[i].v.risk_flag_id # RiskFlags[k].v.risk_flag_id
        /\ {RiskFlags[i].v.risk_flag_id : i \in DOMAIN RiskFlags}
              = {FlagIdOf(FlagRules[j]) : j \in Flagging}
        /\ \A i \in DOMAIN RiskFlags :
              /\ DOMAIN RiskFlags[i].v = {"risk_flag_id", "severity"}
              /\ \E j \in Flagging :
                    /\ FlagIdOf(FlagRules[j]) = RiskFlags[i].v.risk_flag_id
                    /\ DeclaredPriority(FlagRules[j]) = LowestPriority(RiskFlags[i].v.risk_flag_id)
                    /\ Get(Get(FlagRules[j], "outputs"), "severity") = RiskFlags[i].v.severity
        /\ \A i, k \in DOMAIN RiskFlags :
              i < k => LowestPriority(RiskFlags[i].v.risk_flag_id)
                          <= LowestPriority(RiskFlags[k].v.risk_flag_id)

\* two matching rules name one flag, the one of higher priority number listed
\* first, and the report has the severity of the other
C12_Witness ==
    /\ ReportReturned
    /\ \E j1, j2 \in Flagging :
          /\ j1 < j2
          /\ FlagIdOf(FlagRules[j1]) = FlagIdOf(FlagRules[j2])
          /\ DeclaredPriority(FlagRules[j1]) > DeclaredPriority(FlagRules[j2])
          /\ Get(Get(FlagRules[j1], "outputs"), "severity")
                # Get(Get(FlagRules[j2], "outputs"), "severity")
          /\ \E i \in DOMAIN RiskFlags :
                /\ RiskFlags[i].v.risk_flag_id = FlagIdOf(FlagRules[j2])
                /\ RiskFlags[i].v.severity = Get(Get(FlagRules[j2], "outputs"), "severity")

TradeoffRuleList == S2Rules("tradeoff_rules")

MatchingTradeoffs ==
    {j \in DOMAIN TradeoffRuleList : Matches(Get(TradeoffRuleList[j], "when"))}

MatchingTemplates == {j \in DOMAIN TemplateRules : Matches(Get(TemplateRules[j], "when"))}

\* the pieces of the summary of the report: the name of the template, and the
\* trade-off tag of the context as the template shows it
SummaryPieces == ret.v.report.v.summary_ko.v

\* a trade-off tag as a template shows it: the tag, "null" for None
ShownTag(tag) == IF IsStr(tag) THEN tag ELSE StrV(<<"n", "u", "l", "l">>)

\* C13: the trade-off tag is that of a matching trade-off rule of the lowest
\* priority number (None when no rule matches), and the template is a matching
\* template rule of the highest priority number (none when no rule matches), so
\* that a catch-all template is selected only when no matching template rule
\* has a higher priority
C13_OppositeSelection ==
    ReportReturned =>
        /\ IF MatchingTemplates = {} THEN SummaryPieces = <<>>
           ELSE \E j \in MatchingTemplates :
                   /\ \A k \in MatchingTemplates :
                         DeclaredPriority(TemplateRules[k]) <= DeclaredPriority(TemplateRules[j])
                   /\ SummaryPieces[1] = TextOf(TemplateRules[j], "summary_ko").v[1]
        /\ SummaryPieces # <<>> =>
              IF MatchingTradeoffs = {} THEN SummaryPieces[2] = ShownTag(None)
              ELSE \E j \in MatchingTradeoffs :
                      /\ \A k \in MatchingTradeoffs :
                            DeclaredPriority(TradeoffRuleList[j])
                               <= DeclaredPriority(TradeoffRuleList[k])
                      /\ SummaryPieces[2]
                            = ShownTag(Get(Get(TradeoffRuleList[j], "outputs"), "tradeoff_tag"))

\* a catch-all template is listed before a matching template of higher
\* priority, which is the one selected, and of two matching trade-off rules the
\* one listed second, of lower priority number, gives the tag
C13_Witness ==
    /\ ReportReturned
    /\ \E j1, j2 \in MatchingTemplates :
          /\ j1 < j2
          /\ Get(TemplateRules[j1], "when") = BoolV(TRUE)
          /\ DeclaredPriority(TemplateRules[j1]) < DeclaredPriority(TemplateRules[j2])
          /\ SummaryPieces[1] = TextOf(TemplateRules[j2], "summary_ko").v[1]
    /\ \E j1, j2 \in MatchingTradeoffs :
          /\ j1 < j2
          /\ DeclaredPriority(TradeoffRuleList[j1]) > DeclaredPriority(TradeoffRuleList[j2])
          /\ SummaryPieces[2] = Get(Get(TradeoffRuleList[j2], "outputs"), "tradeoff_tag")

\* the what-if records of the report
WhatIfRecords == ret.v.report.v.what_if_results.v

\* a score of the base evaluation, as the report holds it
BaseScore(name) == Get(ret.v.scoring, name).v

\* the grade bands of a component in the scoring specification of the call
BandsOf(component) == ListOf(Get(Get(args.rt.spec, "S2"), "grade_thresholds"), component)

\* the weighted sum of the location and condition scores of the base
\* evaluation and the cost score of the record, rounded as a score is
WeightedWithBase(record) ==
    LET w(component) == AsFP(Get(Get(Get(args.rt.spec, "S2"), "weights"), component)) \div 100
    IN  _round(w("location") * BaseScore("location_score")
                 + w("condition") * BaseScore("condition_score")
                 + w("cost") * record.v.cost_score.v, 100)

\* C14: in every what-if record the overall score is the weighted sum of the
\* location and condition scores of the base evaluation and the cost score of
\* the record; the record holds a cost score, an overall score and their two
\* grades, and no location or condition score
C14_WhatIfOverall ==
    ReportReturned =>
        \A i \in DOMAIN WhatIfRecords :
            LET record == WhatIfRecords[i]
            IN  /\ DOMAIN record.v = {"id", "label_ko", "label_ja", "initial_cost_total_yen",
                                      "initial_multiple", "cost_score", "overall_score",
                                      "cost_grade", "overall_grade"}
                /\ record.v.overall_score = FloatV(WeightedWithBase(record))
                /\ record.v.cost_grade = EnumV(_grade_for_score(record.v.cost_score.v, BandsOf("cost")))
                /\ record.v.overall_grade
                      = EnumV(_grade_for_score(record.v.overall_score.v, BandsOf("overall")))

\* a what-if record whose cost score, overall score and overall grade are not
\* those of the base evaluation
C14_Witness ==
    /\ ReportReturned
    /\ \E i \in DOMAIN WhatIfRecords :
          /\ WhatIfRecords[i].v.cost_score.v # BaseScore("cost_score")
          /\ WhatIfRecords[i].v.overall_score.v # BaseScore("overall_score")
          /\ WhatIfRecords[i].v.overall_grade # Get(ret.v.grades, "overall_grade")
          /\ BaseScore("location_score") # BaseScore("condition_score")

WhatIfRuleList == S2Rules("what_if_rules")

\* the what-if rule is enabled for the listing
Enabled(wi) == Matches(Get(wi, "enabled_if"))

\* an action that yields a record: a dict whose target key is a string and whose
\* type is one of the three types
WellFormed(action) ==
    IF action.t # "dict" THEN FALSE
    ELSE /\ Get(action, "target_key").t = "enum"
         /\ Get(action, "type") \in {EnumV("delta_yen"), EnumV("set_zero"), EnumV("scale")}

WellFormedActions(wi) == SelectSeq(ListOf(wi, "actions"), WellFormed)

\* the what-if records of the same call of evaluate when the action is the only
\* action of the only what-if rule configured
RecordsAlone(wi, action) ==
    LET alone == Updated(wi, DictV([actions |-> ListV(<<action>>)]))
        s2    == Updated(Get(args.rt.spec, "S2"), DictV([what_if_rules |-> ListV(<<alone>>)]))
        rt    == [args.rt EXCEPT !.spec = Updated(@, DictV([S2 |-> s2]))]
    IN  evaluate(args.payload, rt, args.benchmark_index_override, args.env).v.report.v.what_if_results.v

RECURSIVE Flattened(_)
\* the lists of a list, one after another
Flattened(lists) == IF lists = <<>> THEN <<>> ELSE Head(lists) \o Flattened(Tail(lists))

\* the records that the enabled rules yield when each action is taken alone
RecordsOfRule(wi) ==
    IF Enabled(wi)
    THEN Flattened([j \in DOMAIN WellFormedActions(wi) |-> RecordsAlone(wi, WellFormedActions(wi)[j])])
    ELSE <<>>

NumberOfActions(wi) == IF Enabled(wi) THEN Len(WellFormedActions(wi)) ELSE 0

\* C15: the what-if records of a report are, in order, the records that each
\* well-formed action of each enabled rule yields when it is the only action
\* configured, one record for each such action
C15_Independent ==
    ReportReturned =>
        /\ WhatIfRecords = Flattened([i \in DOMAIN WhatIfRuleList |-> RecordsOfRule(WhatIfRuleList[i])])
        /\ Len(WhatIfRecords)
              = Len(Flattened([i \in DOMAIN WhatIfRuleList |->
                                  [j \in 1..NumberOfActions(WhatIfRuleList[i]) |-> j]]))

\* three records of two enabled rules, one of which has actions that yield no
\* record, and the later records are not those of the first action
C15_Witness ==
    /\ ReportReturned
    /\ Len(WhatIfRecords) = 3
    /\ \A i \in DOMAIN WhatIfRuleList : Enabled(WhatIfRuleList[i])
    /\ \E i \in DOMAIN WhatIfRuleList :
          Len(WellFormedActions(WhatIfRuleList[i])) < Len(ListOf(WhatIfRuleList[i], "actions"))
    /\ WhatIfRecords[1].v.cost_score # WhatIfRecords[2].v.cost_score
    /\ WhatIfRecords[2].v.initial_cost_total_yen # WhatIfRecords[3].v.initial_cost_total_yen

-----------------------------------------------------------------------------
(* One what-if action on a payload, and a second one on what the first has left *)

\* new_payload after one action of an enabled what-if rule, or None when the
\* loop passes the action over
what_if_new_payload(payload, action) ==
    LET target_key  == Get(action, "target_key")
        action_type == Get(action, "type")
        new_value   == what_if_new_value(action_type, action, WhatIfInt(Get(payload, target_key.v)))
    IN  IF action.t # "dict" \/ target_key.t # "enum" \/ action_type.t # "enum" \/ new_value = None
        THEN None
        ELSE what_if_payload(payload, target_key.v, new_value)

\* valid payloads: a total above and below the key money, key money present,
\* zero and absent, a walk whose half is no integer
WhatIfPayloads ==
    {Restrict(Updated(FullPayload(IntV(80000), 10000),
                      DictV([initial_cost_total_yen |-> IntV(total), key_money_yen |-> IntV(key_money),
                             station_walk_min |-> IntV(walk)])),
              PayloadKeys \ without) :
        total \in {0, 50000, 300000}, key_money \in {0, 100000}, walk \in {5, 15},
        without \in {{}, {"key_money_yen"}}}

\* the keys that an action may name: fees of the payload, the total, a key that
\* is no amount, and an amount that no payload holds
TargetKeys == {"key_money_yen", "rent_yen", "initial_cost_total_yen", "station_walk_min", "deposit_yen"}

\* the amounts of a delta_yen, None for an action without value
DeltaValues == {IntV(0 - 100000), IntV(0 - 5000), IntV(0), IntV(5000), None}

\* the factors of a scale, None for an action without value
ScaleValues == {FloatV(5000), FloatV(15000), IntV(2), FloatV(0 - 5000), None}

WhatIfActionsOf(target_key) ==
    {Action(target_key, "delta_yen", value) : value \in DeltaValues}
      \cup {Action(target_key, "scale", value) : value \in ScaleValues}
      \cup {Action(target_key, "set_zero", None), Action(target_key, "waive", IntV(1))}

WhatIfArgs(payload, action) == [fn |-> "what_if", payload |-> payload, action |-> action]

IsWhatIfCall(a) ==
    \E payload \in WhatIfPayloads, target_key \in TargetKeys :
        \E action \in WhatIfActionsOf(target_key) : a = WhatIfArgs(payload, action)

\* the action is applied to a copy of the payload
Call_what_if_action ==
    /\ pc = "call"
    /\ args.fn = "what_if"
    /\ ret' = [once |-> what_if_new_payload(args.payload, args.action)]
    /\ pc' = "applied"
    /\ UNCHANGED args

\* the delta_yen of the opposite amount is applied to what a delta_yen has left
Call_what_if_inverse ==
    /\ pc = "applied"
    /\ args.fn = "what_if"
    /\ Get(args.action, "type") = EnumV("delta_yen")
    /\ ret' = [once  |-> ret.once,
               twice |-> what_if_new_payload(ret.once,
                             Updated(args.action,
                                     DictV([value |-> IntV(0 - WhatIfInt(Get(args.action, "value")))])))]
    /\ pc' = "done"
    /\ UNCHANGED args

InitWhatIf == pc = "call" /\ IsWhatIfCall(args) /\ ret = NoRet

NextWhatIf == Call_what_if_action \/ Call_what_if_inverse

SpecWhatIf == InitWhatIf /\ [][NextWhatIf]_vars

-----------------------------------------------------------------------------
(* Claims about the what-if actions *)

WhatIfApplied == args.fn = "what_if" /\ pc \in {"applied", "done"}

WhatIfInverted == args.fn = "what_if" /\ pc = "done"

TargetKey == Get(args.action, "target_key").v

\* the value under a key of a payload, an absent key counting as 0
Amount(payload, key) == IF key \in DOMAIN payload.v THEN payload.v[key].v ELSE 0

\* the amount of the delta_yen of the call, 0 without value
DeltaOfCall == IF Get(args.action, "value") = None THEN 0 ELSE Get(args.action, "value").v

\* the difference of the target is carried into the total of the payload
Propagated ==
    /\ TargetKey # "initial_cost_total_yen"
    /\ TargetKey \in {"key_money_yen", "rent_yen", "deposit_yen"}
    /\ "initial_cost_total_yen" \in DOMAIN args.payload.v

\* the payloads agree on every key but those of the set
SameBut(p, q, keys) ==
    /\ DOMAIN p.v \ keys = DOMAIN q.v \ keys
    /\ \A k \in DOMAIN p.v \ keys : p.v[k] = q.v[k]

\* neither the target nor the total is cut off at 0 by the delta_yen
NothingClamped ==
    /\ TargetKey \in DOMAIN args.payload.v
    /\ Amount(args.payload, TargetKey) + DeltaOfCall >= 0
    /\ Propagated => Amount(args.payload, "initial_cost_total_yen") + DeltaOfCall >= 0

\* C16 as stated: a delta_yen of v and then one of -v restore the target and
\* the total of any payload
C16_Original ==
    WhatIfInverted =>
        /\ Amount(ret.twice, TargetKey) = Amount(args.payload, TargetKey)
        /\ Amount(ret.twice, "initial_cost_total_yen") = Amount(args.payload, "initial_cost_total_yen")

\* C16: when the payload holds the target and the delta_yen of v cuts off
\* neither the target nor the total at 0, the delta_yen of v and then that of
\* -v leave the payload as it was, and so the cost score, which is computed
\* from the payload and from values that the actions do not touch
C16_RoundTrip == (WhatIfInverted /\ NothingClamped) => ret.twice = args.payload

\* a delta_yen that changes the target and the total, none of them cut off, and
\* whose inverse has been applied
C16_Witness ==
    /\ WhatIfInverted
    /\ NothingClamped
    /\ Propagated
    /\ ret.once # args.payload
    /\ Amount(ret.once, TargetKey) # Amount(args.payload, TargetKey)
    /\ Amount(ret.once, "initial_cost_total_yen") # Amount(args.payload, "initial_cost_total_yen")
    /\ ret.twice = args.payload

\* the factor of the scale of the call, in hundredths, 1 without value
FactorOfCall ==
    LET value == Get(args.action, "value")
    IN  IF value = None THEN 100 ELSE IF value.t = "int" THEN 100 * value.v ELSE value.v \div (FP \div 100)

\* the new value of the target as the three types define it
NewValueOfCall ==
    LET old  == Amount(args.payload, TargetKey)
        type == Get(args.action, "type")
    IN  CASE type = EnumV("delta_yen") -> Max2(0, old + DeltaOfCall)
          [] type = EnumV("set_zero") -> 0
          [] type = EnumV("scale") -> Max2(0, RoundHalfEven(old * FactorOfCall, 100))

\* C17: the action sets the target to max(0, old + value) for delta_yen, to 0
\* for set_zero and to max(0, round(old * value)) for scale, an absent target
\* counting as 0, and the new value is never negative; an action of another
\* type yields no record
C17_NewValue ==
    WhatIfApplied =>
        IF Get(args.action, "type") \in {EnumV("delta_yen"), EnumV("set_zero"), EnumV("scale")}
        THEN /\ ret.once # None
             /\ TargetKey \in DOMAIN ret.once.v
             /\ ret.once.v[TargetKey] = IntV(NewValueOfCall)
             /\ ret.once.v[TargetKey].v >= 0
        ELSE ret.once = None

\* a scale whose product is a half, rounded to the even neighbour, and a
\* delta_yen below the old value, cut off at 0
C17_Witness ==
    /\ WhatIfApplied
    /\ \/ /\ Get(args.action, "type") = EnumV("scale")
          /\ (Amount(args.payload, TargetKey) * FactorOfCall) % 100 = 50
          /\ ret.once.v[TargetKey].v * 100 < Amount(args.payload, TargetKey) * FactorOfCall
       \/ /\ Get(args.action, "type") = EnumV("delta_yen")
          /\ Amount(args.payload, TargetKey) + DeltaOfCall < 0
          /\ ret.once.v[TargetKey] = IntV(0)

\* the difference between the new and the old value of the target
DifferenceOfCall == Amount(ret.once, TargetKey) - Amount(args.payload, TargetKey)

\* C18 as stated: the new total is the old total plus the difference
C18_Original ==
    (WhatIfApplied /\ ret.once # None /\ Propagated) =>
        Amount(ret.once, "initial_cost_total_yen")
            = Amount(args.payload, "initial_cost_total_yen") + DifferenceOfCall

\* C18: when the target is a key in yen other than the total, the new total is
\* the old total plus the difference of the target, cut off at 0, and no other
\* field changes; when the target is the total or no key in yen, no field but
\* the target changes
C18_Propagation ==
    (WhatIfApplied /\ ret.once # None) =>
        IF Propagated
        THEN /\ ret.once.v.initial_cost_total_yen
                   = IntV(Max2(0, Amount(args.payload, "initial_cost_total_yen") + DifferenceOfCall))
             /\ SameBut(ret.once, args.payload, {TargetKey, "initial_cost_total_yen"})
        ELSE SameBut(ret.once, args.payload, {TargetKey})

\* the key money is set to zero and the total, which was above it, has gone
\* down by it
C18_Witness ==
    /\ WhatIfApplied
    /\ ret.once # None
    /\ Propagated
    /\ DifferenceOfCall < 0
    /\ Amount(ret.once, "initial_cost_total_yen") > 0
    /\ Amount(ret.once, "initial_cost_total_yen")
          = Amount(args.payload, "initial_cost_total_yen") + DifferenceOfCall

-----------------------------------------------------------------------------
(* Calls of _validate_input *)

\* the values that a call puts under a key in place of that of the listing;
\* Absent takes the key out
ValuesFor(key) ==
    CASE key = "rent_yen" ->
           {IntV(0 - 5), IntV(0), IntV(100000), IntV(150000), BoolV(TRUE),
            FloatV(5 * FP + FP \div 2), StrV(<<"8">>), None, Absent}
      [] key = "mgmt_fee_yen" -> {IntV(0 - 1), IntV(0), IntV(1000000000)}
      [] key = "station_walk_min" ->
           {IntV(0 - 1), IntV(0), IntV(60), IntV(61), BoolV(FALSE), FloatV(5 * FP + FP \div 2),
            StrV(<<"8">>), Absent}
      [] key = "area_sqm" ->
           {IntV(4), IntV(5), FloatV(25 * FP + FP \div 2), IntV(200), IntV(201),
            FloatV(200 * FP + FP \div 2), BoolV(TRUE), StrV(<<"8">>)}
      [] key = "bathroom_toilet_separate" -> {BoolV(FALSE), IntV(1), StrV(<<"8">>)}
      [] key = "layout_type" -> {StrV(s_1K), StrV(s_1DK), IntV(3), Absent}
      [] key = "municipality" -> {StrV(s_kita), IntV(3), Absent}
      [] key = "hub_station" -> {StrV(s_other), StrV(s_kita), Absent}
      [] key = "hub_station_other_name" -> {StrV(s_kita), BoolV(TRUE)}
      [] key = "pets_allowed" -> {BoolV(TRUE)}

ChangedKeys == {"rent_yen", "mgmt_fee_yen", "station_walk_min", "area_sqm", "bathroom_toilet_separate",
                "layout_type", "municipality", "hub_station", "hub_station_other_name", "pets_allowed"}

\* the payload with the key set to the value, or taken out
Changed(payload, key, value) ==
    IF value = Absent THEN Restrict(payload, DOMAIN payload.v \ {key})
    ELSE Updated(payload, DictV([k \in {key} |-> value]))

\* the listing with the values of up to two keys replaced
ValidatePayloads ==
    {FullPayload(IntV(80000), 10000)}
      \cup UNION {{Changed(Changed(FullPayload(IntV(80000), 10000), k1, v1), k2, v2) :
                      v1 \in ValuesFor(k1), v2 \in ValuesFor(k2)} :
                  k1 \in ChangedKeys, k2 \in ChangedKeys}

ValidateArgs(payload, s1) == [fn |-> "_validate_input", payload |-> payload, s1 |-> s1]

IsValidateCall(a) == \E payload \in ValidatePayloads : a = ValidateArgs(payload, S1)

\* None when _validate_input returns, the error when it raises
Call__validate_input ==
    /\ pc = "call"
    /\ args.fn = "_validate_input"
    /\ ret' = IF _validate_input(args.payload, args.s1) THEN None ELSE Raise("InputValidationError")
    /\ pc' = "done"
    /\ UNCHANGED args

InitValidate == pc = "call" /\ IsValidateCall(args) /\ ret = NoRet

NextValidate == Call__validate_input

SpecValidate == InitValidate /\ [][NextValidate]_vars

-----------------------------------------------------------------------------
(* Claims about _validate_input *)

ValidateReturned == pc = "done" /\ args.fn = "_validate_input"

ValidateRaised == ret = Raise("InputValidationError")

\* the field of the schema that declares the key
Declared(key) ==
    LET fields == Get(args.s1, "fields").v
    IN  fields[CHOOSE i \in DOMAIN fields : Get(fields[i], "key") = EnumV(key)]

DeclaredKeys == {Get(Get(args.s1, "fields").v[i], "key").v : i \in DOMAIN Get(args.s1, "fields").v}

RequiredKeys ==
    {Get(args.s1, "mvp_required_fields").v[i].v : i \in DOMAIN Get(args.s1, "mvp_required_fields").v}

\* the value is of the declared type: a boolean is no integer and no number
OfDeclaredType(key) ==
    LET v     == args.payload.v[key]
        ftype == Get(Declared(key), "type").v
        ev    == Get(Get(Declared(key), "constraints"), "enum_values")
    IN  CASE ftype = "integer" -> v.t = "int"
          [] ftype = "number" -> v.t \in {"int", "float"}
          [] ftype = "boolean" -> v.t = "bool"
          [] ftype = "string" -> v.t = "str"
          [] ftype = "enum" -> v.t = "str" /\ \E i \in DOMAIN ev.v : ev.v[i] = v

\* the payload has one of the defects: a key that is not declared, a required
\* key that is missing, hub_station "other" without its name, a value that is
\* not of the declared type
Defective ==
    \/ \E k \in DOMAIN args.payload.v : k \notin DeclaredKeys
    \/ \E k \in RequiredKeys : k \notin DOMAIN args.payload.v
    \/ /\ Get(args.payload, "hub_station") = StrV(s_other)
       /\ "hub_station_other_name" \notin DOMAIN args.payload.v
    \/ \E k \in DOMAIN args.payload.v \cap DeclaredKeys : ~OfDeclaredType(k)

NumericKeys ==
    {k \in DOMAIN args.payload.v \cap DeclaredKeys :
        Get(Declared(k), "type") \in {EnumV("integer"), EnumV("number")}}

MinOf(key) == Get(Get(Declared(key), "constraints"), "min")

MaxOf(key) == Get(Get(Declared(key), "constraints"), "max")

BelowMin(key) == MinOf(key) # None /\ RealLess(args.payload.v[key], MinOf(key))

AboveMax(key) == MaxOf(key) # None /\ RealLess(MaxOf(key), args.payload.v[key])

InYen(key) == Get(Declared(key), "unit") = EnumV("yen")

\* C19 as stated: the call raises for every payload that has one of the
\* defects, and returns for every payload that has none and whose values are
\* in range
C19_Original ==
    ValidateReturned =>
        /\ Defective => ValidateRaised
        /\ (~Defective /\ \A k \in NumericKeys : ~BelowMin(k) /\ ~AboveMax(k)) => ~ValidateRaised

\* C20 as stated: among the payloads without defect, those raise that have a
\* value below min or above max in a numeric field that is not in yen
C20_Original ==
    (ValidateReturned /\ ~Defective) =>
        (ValidateRaised <=> \E k \in NumericKeys : ~InYen(k) /\ (BelowMin(k) \/ AboveMax(k)))

\* C20: among the payloads without defect, those raise that have a value below
\* min in a numeric field, or a value above max in a numeric field that is not
\* in yen: for a field in yen the max alone is not enforced
C20_YenMax ==
    (ValidateReturned /\ ~Defective) =>
        (ValidateRaised <=> \E k \in NumericKeys : BelowMin(k) \/ (~InYen(k) /\ AboveMax(k)))

\* a payload without defect whose rent is above the max of the field is
\* accepted
C20_Witness ==
    /\ ValidateReturned
    /\ ~Defective
    /\ ~ValidateRaised
    /\ \E k \in NumericKeys : InYen(k) /\ AboveMax(k)

-----------------------------------------------------------------------------
(* Calls of evaluate with and without a live comparable search *)

\* a live result whose rent alone differs from its monthly total
LiveResultOf(total, rent, n, confidence, level) ==
    [LiveResult(total, n, confidence, level) EXCEPT !.benchmark_rent_yen_raw = rent]

\* what search_comparable_listings answers: the result of a provider, the
\* result of a search that no provider has served, or an exception
SearchAnswers ==
    {LiveResultOf(IntV(120000), IntV(110000), 5, "high", "suumo_live"),
     LiveResultOf(IntV(95000), IntV(90000), 3, "low", "chintai_relaxed"),
     LiveResultOf(IntV(130000), IntV(130000), 12, "live", "homes_live"),
     LiveResult(None, 0, "none", "none"),
     Raise("ConnectionError")}

\* the years of the wall clock at the call
Years == {2026, 2031}

\* the process environment and the clock of a call: the search enabled or not,
\* the module of the search imported or not
LiveEnvs ==
    {[current_year |-> year, live_enabled |-> enabled, live_available |-> available,
      search |-> search] :
        year \in Years, enabled \in BOOLEAN, available \in BOOLEAN, search \in SearchAnswers}

IsLiveCall(a) ==
    \E rent_yen \in {IntV(80000), IntV(150000)}, mgmt_fee_yen \in {0, 10000},
       benchmark_index_override \in {None, EmptyDict,
                                     Index(Absent, Entry(IntV(150000), IntV(1)), Absent)},
       env \in LiveEnvs :
        a = EvaluateArgs(FullPayload(rent_yen, mgmt_fee_yen),
                         RuntimeOf(S2(FALSE), C1Shown, EmptyDict), benchmark_index_override, env)

InitLive == pc = "call" /\ IsLiveCall(args) /\ ret = NoRet

SpecLive == InitLive /\ [][NextEvaluate]_vars

-----------------------------------------------------------------------------
(* Claims about the benchmark of evaluate *)

\* the search is made and answers a result whose confidence is not "none"
LiveAnswered ==
    /\ args.env.live_enabled
    /\ args.env.live_available
    /\ args.env.search.t = "result"
    /\ args.env.search.benchmark_confidence # "none"

\* the estimate of the management fee that the report says was added
EstimateAdded == Derived("benchmark_mgmt_fee_estimate_yen").v

\* an amount of the match of the index with the estimate added, None for None
WithEstimate(amount) == IF amount = None THEN None ELSE IntV(amount.v + EstimateAdded)

\* C21: when the live search answers a result whose confidence is not "none",
\* the benchmark rent, raw rent, sample count, confidence and matched level of
\* the report are those of the live result, with no adjustment record and no
\* estimate added; when the search is disabled, not available, raises or
\* answers confidence "none", they are those of the match of the index
C21_LiveReplaces ==
    ReportReturned =>
        IF LiveAnswered
        THEN /\ Derived("benchmark_monthly_fixed_cost_yen") = args.env.search.benchmark_rent_yen
             /\ Derived("benchmark_monthly_fixed_cost_yen_raw") = args.env.search.benchmark_rent_yen_raw
             /\ Derived("benchmark_n_sources") = IntV(args.env.search.benchmark_n_sources)
             /\ Derived("benchmark_confidence") = EnumV(args.env.search.benchmark_confidence)
             /\ Derived("benchmark_matched_level") = EnumV(args.env.search.matched_level)
             /\ Derived("benchmark_adjustments") = None
             /\ EstimateAdded = 0
             /\ Get(Derived("live_benchmark"), "used") = BoolV(TRUE)
        ELSE /\ Derived("benchmark_monthly_fixed_cost_yen") = WithEstimate(IndexMatch.benchmark_rent_yen)
             /\ Derived("benchmark_monthly_fixed_cost_yen_raw")
                   = WithEstimate(IndexMatch.benchmark_rent_yen_raw)
             /\ Derived("benchmark_n_sources") = IntV(IndexMatch.benchmark_n_sources)
             /\ Derived("benchmark_confidence") = EnumV(IndexMatch.benchmark_confidence)
             /\ Derived("benchmark_matched_level") = EnumV(IndexMatch.matched_level)
             /\ Get(Derived("live_benchmark"), "used") = BoolV(FALSE)

\* the index has a match for the listing, of another rent and another level
\* than the live result, and the report holds the live result
C21_Witness ==
    /\ ReportReturned
    /\ LiveAnswered
    /\ IndexMatch.benchmark_rent_yen # None
    /\ IndexMatch.benchmark_rent_yen # args.env.search.benchmark_rent_yen
    /\ args.env.search.benchmark_rent_yen # args.env.search.benchmark_rent_yen_raw
    /\ Derived("benchmark_monthly_fixed_cost_yen") = args.env.search.benchmark_rent_yen
    /\ Derived("benchmark_matched_level") = EnumV(args.env.search.matched_level)

-----------------------------------------------------------------------------
(* Calls of get_runtime by several threads *)

\* the threads that call get_runtime
MaxThreads == 2

\* the calls that a thread makes
MaxCalls == 2

Threads == 1..MaxThreads

\* The state of the process is held in ret: _RUNTIME is the module global (None,
\* or the Runtime object, named by the number of its construction), constructed
\* counts the Runtime objects constructed, local is the object that a thread has
\* constructed, returned the objects that the calls of a thread have returned.
\* pc gives the place of each thread in get_runtime.
InitRuntime ==
    /\ pc = [t \in Threads |-> "idle"]
    /\ args = [fn |-> "get_runtime"]
    /\ ret = [_RUNTIME |-> None, constructed |-> 0, replaced |-> FALSE,
              local |-> [t \in Threads |-> None], returned |-> [t \in Threads |-> <<>>]]

\* a thread calls get_runtime
get_runtime_call(t) ==
    /\ args.fn = "get_runtime"
    /\ pc[t] = "idle"
    /\ Len(ret.returned[t]) < MaxCalls
    /\ pc' = [pc EXCEPT ![t] = "check"]
    /\ UNCHANGED <<args, ret>>

\* if _RUNTIME is not None: return _RUNTIME
get_runtime_cached(t) ==
    /\ args.fn = "get_runtime"
    /\ pc[t] = "check"
    /\ ret._RUNTIME # None
    /\ ret' = [ret EXCEPT !.returned[t] = Append(@, ret._RUNTIME)]
    /\ pc' = [pc EXCEPT ![t] = "idle"]
    /\ UNCHANGED args

\* _RUNTIME is None: the thread goes on to load the spec and the index
get_runtime_missing(t) ==
    /\ args.fn = "get_runtime"
    /\ pc[t] = "check"
    /\ ret._RUNTIME = None
    /\ pc' = [pc EXCEPT ![t] = "load"]
    /\ UNCHANGED <<args, ret>>

\* the spec and the index are loaded and the Runtime object is constructed
get_runtime_construct(t) ==
    /\ args.fn = "get_runtime"
    /\ pc[t] = "load"
    /\ ret' = [ret EXCEPT !.constructed = @ + 1, !.local[t] = IntV(ret.constructed + 1)]
    /\ pc' = [pc EXCEPT ![t] = "assign"]
    /\ UNCHANGED args

\* _RUNTIME = Runtime(...); return _RUNTIME
get_runtime_assign(t) ==
    /\ args.fn = "get_runtime"
    /\ pc[t] = "assign"
    /\ ret' = [ret EXCEPT !._RUNTIME = ret.local[t],
                          !.replaced = @ \/ ret._RUNTIME # None,
                          !.returned[t] = Append(@, ret.local[t])]
    /\ pc' = [pc EXCEPT ![t] = "idle"]
    /\ UNCHANGED args

NextRuntime ==
    \E t \in Threads :
        \/ get_runtime_call(t)
        \/ get_runtime_cached(t)
        \/ get_runtime_missing(t)
        \/ get_runtime_construct(t)
        \/ get_runtime_assign(t)

SpecRuntime == InitRuntime /\ [][NextRuntime]_vars

-----------------------------------------------------------------------------
(* Claims about get_runtime *)

RuntimeCalled == args.fn = "get_runtime"

\* C22 as stated: under any interleaving of the calls, at most one Runtime
\* object is constructed, all calls return the same object, and the object in
\* _RUNTIME is never replaced
C22_Original ==
    RuntimeCalled =>
        /\ ret.constructed <= 1
        /\ \A t, u \in Threads :
              \A i \in DOMAIN ret.returned[t], j \in DOMAIN ret.returned[u] :
                  ret.returned[t][i] = ret.returned[u][j]
        /\ ~ret.replaced

\* the environment of the call with another year on the clock, and with the
\* search switched the other way in the process environment
OtherEnvs ==
    {[args.env EXCEPT !.current_year = year] : year \in Years}
      \cup {[args.env EXCEPT !.live_enabled = ~args.env.live_enabled]}

\* C23 as stated: a call of the same payload, runtime and index override
\* returns the same report whatever the year of the clock and the process
\* environment are
C23_Original ==
    ReportReturned =>
        \A env \in OtherEnvs :
            evaluate(args.payload, args.rt, args.benchmark_index_override, env) = ret

-----------------------------------------------------------------------------
(* The dicts that evaluate writes to, and its inputs after the call *)

\* ctx = {}: a new dict
ctx_object == "ctx"

\* merged_adj = {}: a new dict
merged_adj_object == "merged_adj"

\* new_payload = payload: the dict of the caller under another name
new_payload_alias == "payload"

\* new_payload = dict(payload): a new dict of the items of the payload
new_payload_object == "new_payload"

\* the writes of one action of an enabled what-if rule to new_payload
RECURSIVE what_if_action_writes(_, _)
what_if_action_writes(actions, payload) ==
    IF actions = <<>> THEN <<>>
    ELSE LET new_payload == what_if_new_payload(payload, Head(actions))
         IN  (IF new_payload = None THEN <<>>
              ELSE <<[object |-> new_payload_object,
                      items  |-> Restrict(new_payload,
                                          {Get(Head(actions), "target_key").v,
                                           "initial_cost_total_yen"})]>>)
               \o what_if_action_writes(Tail(actions), payload)

\* the writes of the what-if loop, up to the rule whose enabled_if raises
RECURSIVE what_if_writes(_, _, _)
what_if_writes(rules, payload, ctx) ==
    IF rules = <<>> THEN <<>>
    ELSE LET enabled == what_if_enabled(Head(rules), ctx)
         IN  IF IsRaise(enabled) THEN <<>>
             ELSE (IF Truthy(enabled)
                   THEN what_if_action_writes(ListOf(Head(rules), "actions"), payload)
                   ELSE <<>>)
                    \o what_if_writes(Tail(rules), payload, ctx)

\* the writes of evaluate to dicts, in their order: each names the dict and the
\* items put into it; l holds the locals at the end of the call
evaluate_writes(l) ==
    (IF "derived" \in DOMAIN l
     THEN (IF Get(l.derived, "benchmark_mgmt_fee_estimate_yen").v > 0
           THEN <<[object |-> merged_adj_object, items |-> Get(l.derived, "benchmark_adjustments")]>>
           ELSE <<>>)
          \o <<[object |-> ctx_object, items |-> l.payload],
               [object |-> ctx_object, items |-> l.derived]>>
     ELSE <<>>)
     \o (IF "scoring" \in DOMAIN l
         THEN <<[object |-> ctx_object, items |-> Updated(l.scoring, l.grades)]>>
         ELSE <<>>)
     \o (IF "what_if_results" \in DOMAIN l
         THEN <<[object |-> ctx_object,
                 items  |-> Restrict(l.ctx, {"tradeoff_tag", "tradeoff_message_key"})]>>
              \o what_if_writes(ListOf(l.s2, "what_if_rules"), l.payload, l.ctx)
         ELSE <<>>)

\* the dict named object, of the given items before the call, after the writes
RECURSIVE written(_, _, _)
written(object, items, writes) ==
    IF writes = <<>> THEN items
    ELSE written(object,
                 IF Head(writes).object = object THEN Updated(items, Head(writes).items) ELSE items,
                 Tail(writes))

\* the calls of SpecRules and of SpecLive, with a live search that answers
IsInputsCall(a) ==
    \E b \in [fn : {"evaluate"}, payload : Payloads, rt : {RuntimeOf(S2(FALSE), C1Shown, EmptyDict)} \cup
                  {RuntimeOf(S2With("what_if_rules", rules), C1Shown, EmptyDict) :
                       rules \in RuleLists(WhatIfRules, MaxRules)},
              benchmark_index_override : {None, EmptyDict,
                                          Index(Absent, Entry(IntV(150000), IntV(1)), Absent)},
              env : {Env(FALSE, None),
                     Env(TRUE, LiveResultOf(IntV(120000), IntV(110000), 5, "high", "suumo_live"))}] :
        /\ b.payload \in {FullPayload(IntV(80000), 10000), FullPayload(IntV(150000), 0),
                          Restrict(FullPayload(IntV(80000), 10000), PayloadKeys \ {"key_money_yen"}),
                          FullPayload(StrV(<<"8">>), 0)}
        /\ a = [b EXCEPT !.fn = "evaluate_inputs"]

\* evaluate is called, and the caller looks at what it has passed: the payload,
\* the spec and the index of the runtime, and the index override
Call_evaluate_inputs ==
    LET after(l) ==
            [report |-> evaluate_return(l),
             payload |-> written("payload", args.payload, evaluate_writes(l)),
             spec |-> written("spec", args.rt.spec, evaluate_writes(l)),
             benchmark_index |->
                 written("benchmark_index", args.rt.benchmark_index, evaluate_writes(l)),
             benchmark_index_override |->
                 IF args.benchmark_index_override = None THEN None
                 ELSE written("benchmark_index_override", args.benchmark_index_override,
                              evaluate_writes(l))]
    IN  /\ pc = "call"
        /\ args.fn = "evaluate_inputs"
        /\ ret' = after(evaluate_template(evaluate_what_if(evaluate_tradeoff(evaluate_risk_flags(
                      evaluate_grades(evaluate_scores(evaluate_derived(evaluate_benchmark(
                          evaluate_validate(args.payload, args.rt, args.benchmark_index_override,
                                            args.env))))))))))
        /\ pc' = "done"
        /\ UNCHANGED args

InitInputs == pc = "call" /\ IsInputsCall(args) /\ ret = NoRet

NextInputs == Call_evaluate_inputs

SpecInputs == InitInputs /\ [][NextInputs]_vars

-----------------------------------------------------------------------------
(* Claims about the inputs of evaluate *)

InputsReturned == pc = "done" /\ args.fn = "evaluate_inputs"

\* C24: after any call of evaluate, the payload of the caller, the spec and the
\* benchmark index of the runtime, and the index override, are what they were
\* before the call
C24_InputsUnchanged ==
    InputsReturned =>
        /\ ret.payload = args.payload
        /\ ret.spec = args.rt.spec
        /\ ret.benchmark_index = args.rt.benchmark_index
        /\ ret.benchmark_index_override = args.benchmark_index_override

\* a call with an index override whose what-if actions have set fields of
\* their copies of the payload to other values, in a report of two records
C24_Witness ==
    /\ InputsReturned
    /\ args.benchmark_index_override # None
    /\ ret.report.t = "dict"
    /\ Len(ret.report.v.report.v.what_if_results.v) >= 2
    /\ \E i \in DOMAIN ret.report.v.report.v.what_if_results.v :
          ret.report.v.report.v.what_if_results.v[i].v.initial_cost_total_yen
              # args.payload.v.initial_cost_total_yen
    /\ ret.payload = args.payload

-----------------------------------------------------------------------------
(* Calls of apply *)

MaxOperands == 3

ApplyData ==
    {DictV([rent_yen |-> IntV(80000), layout_type |-> StrV(<<"1", "K">>),
            station_walk_min |-> None]),
     EmptyDict}

\* {"var": [key]} and {"var": [key, default]}
VarOr(operands) == DictV([var |-> ListV(operands)])

\* a comparison whose evaluation raises TypeError, and an operator not supported
RaisingRules ==
    {Op("<", StrV(<<"1", "K">>), IntV(1)),
     Op("or", BoolV(TRUE), BoolV(FALSE))}

CompareOperands ==
    {None, IntV(0), IntV(80000), FloatV(5000), StrV(<<"1", "K">>), BoolV(FALSE),
     Var("rent_yen"), Var("station_walk_min"), Var("area_sqm"),
     VarOr(<<EnumV("area_sqm")>>), VarOr(<<EnumV("area_sqm"), IntV(25)>>)}
        \cup RaisingRules

AndOperands ==
    {None, IntV(0), IntV(7), StrV(<<>>), BoolV(TRUE), BoolV(FALSE),
     Var("station_walk_min"), Op(">", Var("rent_yen"), IntV(50000))}
        \cup RaisingRules

CompareOps == {"==", "!=", ">", ">=", "<", "<="}

RECURSIVE OperandLists(_, _)
\* the lists of at most n of the operands
OperandLists(operands, n) ==
    IF n = 0 THEN {<<>>}
    ELSE LET shorter == OperandLists(operands, n - 1)
         IN  shorter \cup {<<first>> \o rest : first \in operands,
                                                rest \in {q \in shorter : Len(q) = n - 1}}

ApplyRules ==
    {Op(op, left, right) : op \in CompareOps, left \in CompareOperands, right \in CompareOperands}
        \cup {DictV([and |-> ListV(operands)]) : operands \in OperandLists(AndOperands, MaxOperands)}
        \cup {DictV([and |-> operand]) : operand \in AndOperands}

IsApplyCall(a) ==
    \E rule \in ApplyRules, data \in ApplyData : a = [fn |-> "apply", rule |-> rule, data |-> data]

Call_apply ==
    /\ pc = "call"
    /\ args.fn = "apply"
    /\ ret' = apply(args.rule, args.data)
    /\ pc' = "done"
    /\ UNCHANGED args

InitApply == pc = "call" /\ IsApplyCall(args) /\ ret = NoRet

NextApply == Call_apply

SpecApply == InitApply /\ [][NextApply]_vars

-----------------------------------------------------------------------------
(* Claims about apply *)

ApplyReturned == pc = "done" /\ args.fn = "apply"

\* the operator of the rule of the call, and its operands as written
RuleOp == CHOOSE op \in DOMAIN args.rule.v : TRUE

RuleOperands ==
    IF args.rule.v[RuleOp].t = "list" THEN args.rule.v[RuleOp].v ELSE <<args.rule.v[RuleOp]>>

\* the operand is written null, or is a var of a key that the data of the call
\* does not hold, or holds with a null value, with no default other than null
NullOperand(x) ==
    \/ x = None
    \/ /\ x.t = "dict"
       /\ DOMAIN x.v = {"var"}
       /\ \/ x.v.var.t = "enum" /\ Get(args.data, x.v.var.v) = None
          \/ /\ x.v.var.t = "list"
             /\ IF x.v.var.v[1].v \in DOMAIN args.data.v
                THEN args.data.v[x.v.var.v[1].v] = None
                ELSE Len(x.v.var.v) = 1 \/ x.v.var.v[2] = None

\* the operand evaluates, to a value that is not null
ValuedOperand(x) == ~IsRaise(apply(x, args.data)) /\ apply(x, args.data) # None

\* C25: when both operands of a comparison evaluate and one of them is null (a
\* var of a missing key included), <, <=, > and >= return false and do not
\* raise, == returns whether both are null and != whether one is not
C25_NullComparison ==
    (/\ ApplyReturned
     /\ RuleOp \in CompareOps
     /\ \A i \in 1..2 : NullOperand(RuleOperands[i]) \/ ValuedOperand(RuleOperands[i])
     /\ \E i \in 1..2 : NullOperand(RuleOperands[i]))
        => ret = BoolV(CASE RuleOp = "==" -> \A i \in 1..2 : NullOperand(RuleOperands[i])
                         [] RuleOp = "!=" -> \E i \in 1..2 : ~NullOperand(RuleOperands[i])
                         [] OTHER -> FALSE)

\* an ordering of a var of a missing key with a number has returned false
C25_Witness ==
    /\ ApplyReturned
    /\ args.rule = Op(">=", Var("area_sqm"), IntV(80000))
    /\ "area_sqm" \notin DOMAIN args.data.v
    /\ ret = BoolV(FALSE)

\* the values of the operands of the rule, each evaluated alone
OperandValues == [i \in DOMAIN RuleOperands |-> apply(RuleOperands[i], args.data)]

\* the operand at i is the first whose evaluation raises or is not truthy
FirstStop(i) ==
    /\ i \in DOMAIN OperandValues
    /\ IsRaise(OperandValues[i]) \/ ~Truthy(OperandValues[i])
    /\ \A j \in 1..(i - 1) : ~IsRaise(OperandValues[j]) /\ Truthy(OperandValues[j])

\* C26: "and" returns the value, as it is, of the first operand that is not
\* truthy, whatever the operands after it, and the value of the last operand
\* when all are truthy
C26_AndFirstFalsy ==
    (ApplyReturned /\ RuleOp = "and" /\ RuleOperands # <<>>) =>
        /\ \A i \in DOMAIN OperandValues :
              (FirstStop(i) /\ ~IsRaise(OperandValues[i])) => ret = OperandValues[i]
        /\ (\A i \in DOMAIN OperandValues : ~FirstStop(i)) =>
              ret = OperandValues[Len(OperandValues)]

\* an empty string after a truthy operand and before one that raises is returned
C26_Witness ==
    /\ ApplyReturned
    /\ RuleOp = "and"
    /\ Len(RuleOperands) = 3
    /\ Truthy(OperandValues[1])
    /\ RuleOperands[2] = StrV(<<>>)
    /\ RuleOperands[3] \in RaisingRules
    /\ ret = StrV(<<>>)

-----------------------------------------------------------------------------
(* Calls of _feature_score *)

\* features that declare a confidence key: with and without a neutral score,
\* of a neutral list of one and of two values, and of a method not supported
ConfidenceFeatures ==
    {Feature("rent_delta_ratio", "linear",
             [min_x |-> FloatV(-2000), max_x |-> FloatV(2000), min_score |-> IntV(0),
              max_score |-> IntV(100), direction |-> EnumV("lower_is_better"),
              confidence_key |-> EnumV("benchmark_confidence"),
              neutral_score_if_confidence_in |-> ListV(<<EnumV("none"), EnumV("low")>>)]),
     Feature("orientation", "nearest",
             [confidence_key |-> EnumV("benchmark_confidence"),
              neutral_score_if_confidence_in |-> ListV(<<EnumV("none")>>),
              neutral_score |-> FloatV(655000)]),
     Feature("station_walk_min", "bucket",
             [buckets |-> ListV(<<Bucket("max", IntV(10), 90)>>),
              confidence_key |-> EnumV("benchmark_confidence"),
              neutral_score_if_confidence_in |-> ListV(<<EnumV("high")>>)]),
     Feature("station_walk_min", "bucket",
             [buckets |-> ListV(<<Bucket("max", IntV(10), 90)>>),
              confidence_key |-> EnumV("benchmark_confidence")])}

FeatureArgs(feature, ctx, s2) ==
    [fn |-> "_feature_score", feature |-> feature, ctx |-> ctx, s2 |-> s2]

IsFeatureCall(a) ==
    \E f \in ConfidenceFeatures \cup UNION {FeatureKinds(i) : i \in 1..4},
       w \in {None, FloatV(5000), IntV(1)}, ctx \in Contexts, s2 \in S2Configs :
        a = FeatureArgs(Weighted(f, w), ctx, s2)

Call__feature_score ==
    /\ pc = "call"
    /\ args.fn = "_feature_score"
    /\ ret' = _feature_score(args.feature, args.ctx, args.s2)
    /\ pc' = "done"
    /\ UNCHANGED args

InitFeature == pc = "call" /\ IsFeatureCall(args) /\ ret = NoRet

NextFeature == Call__feature_score

SpecFeature == InitFeature /\ [][NextFeature]_vars

-----------------------------------------------------------------------------
(* Claims about _feature_score *)

FeatureReturned == pc = "done" /\ args.fn = "_feature_score"

FeatureParams == Get(args.feature, "params")

\* the feature declares a confidence key and a neutral list, and the value of
\* the context under the key is in the list
ConfidenceNeutral ==
    /\ Get(FeatureParams, "confidence_key").t = "enum"
    /\ Get(FeatureParams, "neutral_score_if_confidence_in").t = "list"
    /\ \E i \in DOMAIN Get(FeatureParams, "neutral_score_if_confidence_in").v :
          Get(FeatureParams, "neutral_score_if_confidence_in").v[i]
              = Get(args.ctx, Get(FeatureParams, "confidence_key").v)

\* the context holds no value under the input key of the feature
InputAbsent == Get(args.ctx, Get(args.feature, "input_key").v) = None

\* the neutral score that the feature declares, 70 when it declares none
DeclaredNeutralScore ==
    IF "neutral_score" \in DOMAIN FeatureParams.v
    THEN AsFP(FeatureParams.v.neutral_score) ELSE 70 * FP

\* C27: a feature whose confidence is in its neutral list is scored its neutral
\* score, 70 when it declares none, whatever the input and also without one; any
\* other feature without input is scored None, and adds nothing to the
\* available weight
C27_NeutralOrAbsent ==
    FeatureReturned =>
        /\ ConfidenceNeutral => ret = FloatV(DeclaredNeutralScore)
        /\ (~ConfidenceNeutral /\ InputAbsent) =>
              ret = None /\ avail_weight_term(args.feature, ret) = 0

\* a feature of weight 0.5 that declares no neutral score, with a confidence in
\* its neutral list and no input, is scored 70
C27_Witness ==
    /\ FeatureReturned
    /\ ConfidenceNeutral
    /\ InputAbsent
    /\ "neutral_score" \notin DOMAIN FeatureParams.v
    /\ all_weight_term(args.feature, ret) > 0
    /\ ret = FloatV(70 * FP)

-----------------------------------------------------------------------------
(* backend/src/live_benchmark.py *)

ComparisonResult(rent, raw, n, confidence, level, search_url, adjustments_applied, error) ==
    [t |-> "result", benchmark_rent_yen |-> rent, benchmark_rent_yen_raw |-> raw,
     benchmark_n_sources |-> n, benchmark_confidence |-> confidence, matched_level |-> level,
     search_url |-> search_url, adjustments_applied |-> adjustments_applied, error |-> error]

\* the providers that search_comparable_listings has a branch for
LiveProviders == {"chintai", "homes", "suumo"}

ProviderName(provider) ==
    CASE provider = "chintai" -> "CHINTAI"
      [] provider = "homes" -> "HOMES"
      [] OTHER -> "SUUMO"

ConfidenceNoneError(provider) ==
    CASE provider = "chintai" -> "CHINTAI returned confidence=none"
      [] provider = "homes" -> "HOMES returned confidence=none"
      [] OTHER -> "SUUMO returned confidence=none"

NullResultError(provider) ==
    CASE provider = "chintai" -> "CHINTAI returned null result"
      [] provider = "homes" -> "HOMES returned null result"
      [] OTHER -> "SUUMO returned null result"

\* _provider_order: the parts of LIVE_PROVIDERS, stripped and in lower case as
\* they are written here, without the empty ones
_provider_order(parts) == SelectSeq(parts, LAMBDA p : p # "")

\* any result that is not null is taken
provider_usable_any(res) == res # None

\* res.benchmark_confidence != "none" and res.benchmark_rent_yen is not None
provider_usable(res) ==
    res # None /\ res.benchmark_confidence # "none" /\ res.benchmark_rent_yen # None

\* the result returned for a usable one: of suumo with the provider set in its
\* adjustments when they are a dict that does not name it
search_returned(provider, res) ==
    IF provider = "suumo" /\ res.adjustments_applied.t = "dict"
    THEN [res EXCEPT !.adjustments_applied =
              Updated(DictV([provider |-> EnumV("suumo"), provider_name |-> EnumV("SUUMO")]),
                      res.adjustments_applied)]
    ELSE res

\* x when it is of the type asked for and truthy, or else what was held before
Latest(x, types, before) == IF x.t \in types /\ Truthy(x) THEN x ELSE before

\* the locals after a result that is null or not usable
search_failed(l, provider, res) ==
    LET last_url   == IF res # None /\ Truthy(res.search_url) THEN res.search_url ELSE l.last_url
        last_error == IF res = None THEN EnumV(NullResultError(provider))
                      ELSE IF Truthy(res.error) THEN res.error
                      ELSE EnumV(ConfidenceNoneError(provider))
        adj        == IF res # None THEN res.adjustments_applied ELSE None
        la         == Get(adj, "attempts")
    IN  [l EXCEPT !.last_url = last_url,
                  !.last_error = last_error,
                  !.last_filters = IF Get(adj, "filters").t = "dict" THEN Get(adj, "filters") ELSE @,
                  !.last_provider = Latest(Get(adj, "provider"), {"enum"}, @),
                  !.last_provider_name = Latest(Get(adj, "provider_name"), {"enum"}, @),
                  !.attempts = (@ \o (IF la.t = "list" THEN la.v ELSE <<>>))
                                  \o <<DictV([provider |-> EnumV(provider), error |-> last_error,
                                              url |-> last_url])>>]

\* the locals after a provider that has raised: str(e) is the message
search_raised(l, provider, message) ==
    [l EXCEPT !.last_error = message,
              !.attempts = Append(@, DictV([provider |-> EnumV(provider), error |-> message]))]

\* the locals after a provider that is not called
search_skipped(l, provider, error) ==
    [l EXCEPT !.attempts = Append(@, DictV([provider |-> EnumV(provider), error |-> EnumV(error)]))]

\* the result when no provider has given a usable one
search_none(l) ==
    ComparisonResult(None, None, 0, "none", "none", l.last_url,
                     DictV([provider |-> l.last_provider, provider_name |-> l.last_provider_name,
                            filters |-> l.last_filters, attempts |-> ListV(l.attempts)]),
                     IF Truthy(l.last_error) THEN l.last_error
                     ELSE EnumV("No live benchmark providers succeeded"))

-----------------------------------------------------------------------------
(* Calls of search_comparable_listings: one step for each provider *)

MaxProviders == 3

\* what a provider answers to a search
AnswerKinds == {"found", "none", "no_rent", "null", "raise", "raise_empty"}

SearchUrl(provider) == EnumV(provider)

\* the result of a provider: of chintai and homes with the provider named in
\* the adjustments, of suumo without; a result without listings holds the
\* attempts of the provider and an error, or a confidence and no rent
ProviderAnswer(provider, kind) ==
    LET named == IF provider = "suumo" THEN EmptyDict
                 ELSE DictV([provider |-> EnumV(provider),
                             provider_name |-> EnumV(ProviderName(provider))])
    IN  CASE kind = "found" ->
               ComparisonResult(IntV(120000), IntV(110000), 5, "high", provider, SearchUrl(provider),
                                Updated(named, DictV([filters |-> DictV([walk |-> IntV(10)])])), None)
          [] kind = "none" ->
               ComparisonResult(None, None, 0, "none", "none", SearchUrl(provider),
                                Updated(named, DictV([attempts |-> ListV(<<DictV([step |-> IntV(0)])>>),
                                                      filters |-> DictV([walk |-> IntV(15)])])),
                                IF provider = "homes" THEN None ELSE EnumV("no listings"))
          [] kind = "no_rent" ->
               ComparisonResult(None, None, 2, "low", provider, None, None, None)
          [] kind = "null" -> None
          [] kind = "raise" -> Raise(EnumV("timed out"))
          [] OTHER -> Raise(EnumV(""))

RECURSIVE PartLists(_)
\* the lists of at most n parts of LIVE_PROVIDERS
PartLists(n) ==
    IF n = 0 THEN {<<>>}
    ELSE LET shorter == PartLists(n - 1)
         IN  shorter \cup {Append(q, p) : q \in {r \in shorter : Len(r) = n - 1},
                                           p \in LiveProviders \cup {"athome", ""}}

IsSearchCall(a) ==
    \E parts \in PartLists(MaxProviders), available \in {LiveProviders, {"suumo"}, {"chintai", "homes"}} :
        a = [fn |-> "search_comparable_listings", LIVE_PROVIDERS |-> parts, available |-> available]

\* the providers of the call in their order, and the one of the step at hand
SearchOrder == _provider_order(args.LIVE_PROVIDERS)

SearchProvider == SearchOrder[ret.i]

SearchStep == pc = "loop" /\ args.fn = "search_comparable_listings" /\ ret.i <= Len(SearchOrder)

\* the locals after the step of the provider, which has answered kind, or was
\* not called
Stepped(l, kind) == [l EXCEPT !.i = @ + 1, !.seen = Append(@, kind)]

\* a provider whose module is not available is recorded and not called
search_unavailable ==
    /\ SearchStep
    /\ SearchProvider \in LiveProviders \ args.available
    /\ ret' = Stepped(search_skipped(ret, SearchProvider, "unavailable"), "unavailable")
    /\ UNCHANGED <<pc, args>>

\* a provider that has no branch is recorded
search_unknown ==
    /\ SearchStep
    /\ SearchProvider \notin LiveProviders
    /\ ret' = Stepped(search_skipped(ret, SearchProvider, "unknown_provider"), "unknown_provider")
    /\ UNCHANGED <<pc, args>>

\* the provider is called and answers a result that is usable: it is returned
search_usable ==
    /\ SearchStep
    /\ SearchProvider \in args.available
    /\ \E kind \in AnswerKinds :
          /\ ~IsRaise(ProviderAnswer(SearchProvider, kind))
          /\ provider_usable(ProviderAnswer(SearchProvider, kind))
          /\ ret' = [Stepped(ret, kind) EXCEPT
                         !.res = search_returned(SearchProvider, ProviderAnswer(SearchProvider, kind))]
    /\ pc' = "done"
    /\ UNCHANGED args

\* the provider is called and answers null or a result that is not usable
search_not_usable ==
    /\ SearchStep
    /\ SearchProvider \in args.available
    /\ \E kind \in AnswerKinds :
          /\ ~IsRaise(ProviderAnswer(SearchProvider, kind))
          /\ ~provider_usable(ProviderAnswer(SearchProvider, kind))
          /\ ret' = Stepped(search_failed(ret, SearchProvider, ProviderAnswer(SearchProvider, kind)),
                            kind)
    /\ UNCHANGED <<pc, args>>

\* the provider is called and raises
search_raise ==
    /\ SearchStep
    /\ SearchProvider \in args.available
    /\ \E kind \in AnswerKinds :
          /\ IsRaise(ProviderAnswer(SearchProvider, kind))
          /\ ret' = Stepped(search_raised(ret, SearchProvider, ProviderAnswer(SearchProvider, kind).v),
                            kind)
    /\ UNCHANGED <<pc, args>>

\* no provider is left
search_end ==
    /\ pc = "loop"
    /\ args.fn = "search_comparable_listings"
    /\ ret.i > Len(SearchOrder)
    /\ ret' = [ret EXCEPT !.res = search_none(ret)]
    /\ pc' = "done"
    /\ UNCHANGED args

InitSearch ==
    /\ pc = "loop"
    /\ IsSearchCall(args)
    /\ ret = [i |-> 1, attempts |-> <<>>, last_filters |-> None, last_provider |-> None,
              last_provider_name |-> None, last_error |-> None, last_url |-> None,
              seen |-> <<>>, res |-> NoRet]

NextSearch ==
    \/ search_unavailable
    \/ search_unknown
    \/ search_usable
    \/ search_not_usable
    \/ search_raise
    \/ search_end

SpecSearch == InitSearch /\ [][NextSearch]_vars

-----------------------------------------------------------------------------
(* Claims about search_comparable_listings *)

Searching == args.fn = "search_comparable_listings"

SearchReturned == Searching /\ pc = "done"

\* the attempts that the loop has recorded itself, without those that it has
\* taken over from the results of the providers
OwnAttempts == SelectSeq(ret.attempts, LAMBDA a : "provider" \in DOMAIN a.v)

\* C28: the providers are taken in the order of LIVE_PROVIDERS; each one that is
\* unavailable or unknown, raises or answers no usable result is recorded in
\* attempts, in that order; the first result of a confidence other than "none"
\* and of a rent that is not null is returned and no later provider is called;
\* without one the result is of confidence "none", without rents, of sample
\* count 0 and with an error message
C28_FirstUsable ==
    Searching =>
        /\ Len(ret.seen) <= Len(SearchOrder)
        /\ \A j \in 1..(Len(ret.seen) - 1) : ret.seen[j] # "found"
        /\ [j \in DOMAIN OwnAttempts |-> OwnAttempts[j].v.provider.v]
              = SubSeq(SearchOrder, 1, Len(OwnAttempts))
        /\ Len(OwnAttempts) = Cardinality({j \in DOMAIN ret.seen : ret.seen[j] # "found"})
        /\ pc = "done" =>
              IF ret.seen # <<>> /\ ret.seen[Len(ret.seen)] = "found"
              THEN /\ ret.res.benchmark_confidence # "none"
                   /\ ret.res.benchmark_rent_yen # None
                   /\ \A f \in {"benchmark_rent_yen", "benchmark_rent_yen_raw", "benchmark_n_sources",
                                "benchmark_confidence", "matched_level", "search_url", "error"} :
                         ret.res[f] = ProviderAnswer(SearchOrder[Len(ret.seen)], "found")[f]
              ELSE /\ Len(ret.seen) = Len(SearchOrder)
                   /\ ret.res.benchmark_confidence = "none"
                   /\ ret.res.benchmark_rent_yen = None
                   /\ ret.res.benchmark_rent_yen_raw = None
                   /\ ret.res.benchmark_n_sources = 0
                   /\ ret.res.error.t = "enum" /\ ret.res.error.v # ""
                   /\ ret.res.adjustments_applied.v.attempts.v = ret.attempts

\* the second provider of three has answered a usable result after a first that
\* answered none: it is returned and the third is not called
C28_Witness ==
    /\ SearchReturned
    /\ Len(SearchOrder) = 3
    /\ ret.seen = <<"none", "found">>
    /\ ret.res.matched_level = SearchOrder[2]
    /\ Len(OwnAttempts) = 1

-----------------------------------------------------------------------------
(* Calls of _estimate_benchmark_mgmt_fee_yen, alone and within evaluate *)

\* benchmark rents: none, around a tie of the rounding, and around the rent
\* whose 5% is the cap
EstimateRents == {0 - 100, 0, 9, 10, 30, 90, 110, 80000, 150000, 399990, 400000, 400010, 600000}

\* management fees of a listing, which the input schema keeps at 0 or more
EstimateFees == {0, 1, 4, 5, 3000, 7500, 10000, 20000, 20001, 30000}

IsEstimateCall(a) ==
    \/ \E benchmark_rent_yen \in EstimateRents, input_mgmt_fee_yen \in EstimateFees :
          a = [fn |-> "_estimate_benchmark_mgmt_fee_yen", benchmark_rent_yen |-> benchmark_rent_yen,
               input_mgmt_fee_yen |-> input_mgmt_fee_yen]
    \/ \E mgmt_fee_yen \in {0, 3000, 10000, 30000},
          median \in {IntV(150000), IntV(170000), IntV(0)},
          benchmark_index_override \in {None, EmptyDict},
          env \in {Env(FALSE, None),
                   Env(TRUE, LiveResultOf(IntV(120000), IntV(110000), 5, "high", "suumo_live")),
                   Env(TRUE, LiveResultOf(IntV(95000), IntV(90000), 3, "low", "chintai_relaxed")),
                   Env(TRUE, LiveResult(None, 0, "none", "none"))} :
          a = EvaluateArgs(FullPayload(IntV(80000), mgmt_fee_yen),
                           [RuntimeOf(S2(FALSE), C1Shown, EmptyDict) EXCEPT
                                !.benchmark_index = Index(Absent, Entry(median, IntV(2)), Absent)],
                           benchmark_index_override, env)

Call__estimate_benchmark_mgmt_fee_yen ==
    /\ pc = "call"
    /\ args.fn = "_estimate_benchmark_mgmt_fee_yen"
    /\ ret' = IntV(_estimate_benchmark_mgmt_fee_yen(args.benchmark_rent_yen, args.input_mgmt_fee_yen))
    /\ pc' = "done"
    /\ UNCHANGED args

InitEstimate == pc = "call" /\ IsEstimateCall(args) /\ ret = NoRet

NextEstimate ==
    \/ Call__estimate_benchmark_mgmt_fee_yen
    \/ Call_evaluate

SpecEstimate == InitEstimate /\ [][NextEstimate]_vars

-----------------------------------------------------------------------------
(* Claims about the estimate of the management fee *)

EstimateReturned == pc = "done" /\ args.fn = "_estimate_benchmark_mgmt_fee_yen"

\* 0 without a rent or a fee above 0, and else the least of the fee, 5% of the
\* rent rounded, and 20000
ExpectedEstimate(rent, fee) ==
    IF rent <= 0 \/ fee <= 0 THEN 0
    ELSE Min2(fee, Min2(RoundHalfEven(rent * 5, 100), 20000))

\* the benchmark of the report is one of a live provider
LiveLevel ==
    Derived("benchmark_matched_level").v \in
        {"suumo_live", "suumo_relaxed", "homes_live", "homes_relaxed", "chintai_live", "chintai_relaxed"}

\* C29: the estimate is an integer from 0 to the least of the management fee of
\* the listing and 20000: 0 without a benchmark rent or a fee above 0, else the
\* least of the fee, 5% of the rent rounded, and 20000; evaluate adds it to the
\* adjusted and to the raw benchmark alike, and adds nothing to a benchmark of a
\* live provider
C29_Estimate ==
    /\ EstimateReturned =>
          /\ ret = IntV(ExpectedEstimate(args.benchmark_rent_yen, args.input_mgmt_fee_yen))
          /\ ret.v \in 0..Min2(args.input_mgmt_fee_yen, 20000)
    /\ ReportReturned =>
          /\ EstimateAdded \in 0..Min2(args.payload.v.mgmt_fee_yen.v, 20000)
          /\ IF LiveLevel
             THEN /\ EstimateAdded = 0
                  /\ Derived("benchmark_monthly_fixed_cost_yen") = args.env.search.benchmark_rent_yen
                  /\ Derived("benchmark_monthly_fixed_cost_yen_raw")
                        = args.env.search.benchmark_rent_yen_raw
             ELSE IF IndexMatch.benchmark_rent_yen = None
             THEN EstimateAdded = 0 /\ Derived("benchmark_monthly_fixed_cost_yen") = None
             ELSE /\ EstimateAdded = ExpectedEstimate(IndexMatch.benchmark_rent_yen.v,
                                                      args.payload.v.mgmt_fee_yen.v)
                  /\ Derived("benchmark_monthly_fixed_cost_yen").v
                        = IndexMatch.benchmark_rent_yen.v + EstimateAdded
                  /\ Derived("benchmark_monthly_fixed_cost_yen_raw").v
                        = IndexMatch.benchmark_rent_yen_raw.v + EstimateAdded

\* a report whose benchmark of the index, of an adjusted rent other than the
\* raw one, has 5% of the adjusted rent added to both, for a listing of a
\* higher fee
C29_Witness ==
    /\ ReportReturned
    /\ ~LiveLevel
    /\ IndexMatch.benchmark_rent_yen # None
    /\ IndexMatch.benchmark_rent_yen # IndexMatch.benchmark_rent_yen_raw
    /\ EstimateAdded > 0
    /\ EstimateAdded < args.payload.v.mgmt_fee_yen.v
    /\ EstimateAdded = RoundHalfEven(IndexMatch.benchmark_rent_yen.v * 5, 100)
    /\ Derived("benchmark_monthly_fixed_cost_yen").v = IndexMatch.benchmark_rent_yen.v + EstimateAdded
    /\ Derived("benchmark_monthly_fixed_cost_yen_raw").v
          = IndexMatch.benchmark_rent_yen_raw.v + EstimateAdded

-----------------------------------------------------------------------------
(* Claims about the adjustment record of match_benchmark_rent *)

\* the names of the factors of the adjustment record of the returned match
RecordFactors ==
    {ret.adjustments_applied.v.factors[i].name : i \in DOMAIN ret.adjustments_applied.v.factors}

\* C30: of every match with a rent, there is an adjustment record exactly when
\* the adjustment is not disabled and the strength of the match is above 0; the
\* total multiplier of the record is the product of its factors clamped to the
\* configured minimum and maximum, the rent is round(raw * total multiplier),
\* and the factor of the building structure is among the factors exactly when
\* the match is not of the structure tier
C30_AdjustmentRecord ==
    Matched =>
        /\ ret.adjustments_applied # None
              <=> (Get(ArgHedonic, "enabled") # BoolV(FALSE) /\ RetStrength > 0)
        /\ ret.adjustments_applied # None =>
              /\ ret.adjustments_applied.v.multiplier_total_unclamped
                    = ProductFP(ret.adjustments_applied.v.factors)
              /\ ret.adjustments_applied.v.multiplier_total_clamped
                    = Min2(Max2(ret.adjustments_applied.v.multiplier_total_unclamped, ArgTotalMin),
                           ArgTotalMax)
              /\ ret.adjustments_applied.v.multiplier_total
                    = ret.adjustments_applied.v.multiplier_total_clamped
              /\ ret.benchmark_rent_yen
                    = IntV(RoundHalfEven(ret.benchmark_rent_yen_raw.v
                                            * ret.adjustments_applied.v.multiplier_total, FP))
              /\ "building_structure" \in RecordFactors
                    <=> ret.matched_level # "muni_structure_level"

\* a match of the structure tier for a listing of a structure with a factor of
\* its own: the record holds other factors and not that of the structure, and
\* the rent is not the raw rent
C30_Witness ==
    /\ Matched
    /\ ret.matched_level = "muni_structure_level"
    /\ args.building_structure = StrV(s_rc)
    /\ ret.adjustments_applied # None
    /\ RecordFactors # {}
    /\ "building_structure" \notin RecordFactors
    /\ ret.adjustments_applied.v.multiplier_total # FP
    /\ ret.benchmark_rent_yen # ret.benchmark_rent_yen_raw

=============================================================================
